---- MODULE Spec2Model ----
EXTENDS Integers, Sequences, FiniteSets, TLC

(***************************************************************************)
(* MindBridge adaptive memory engine: the semantic, procedural and         *)
(* episodic stores and the hybrid retrieval that ranks their records.      *)
(*                                                                         *)
(* Representation choices, used throughout:                                *)
(*  - A Python str is the sequence of its chunks between single spaces     *)
(*    (what s.split(" ") returns): "a b" is <<"a","b">>, "" is <<"">>,     *)
(*    " a" is <<"","a">>.  f"{x} {y}" is then concatenation, strip()       *)
(*    drops leading and trailing empty chunks.                             *)
(*  - A dict value of unknown type is tagged: Str(s), Num(v), NoneV.       *)
(*  - A float confidence or score is an integer number of hundredths       *)
(*    (1.0 is 100); derived_from is an integer.                            *)
(*  - A call's outcome is a record holding its return value and whether    *)
(*    it raised.                                                           *)
(***************************************************************************)

VARIABLES
    semFile,     \* semantic.jsonl: the sequence of its lines (one dict per line)
    procFile,    \* procedural.jsonl: the sequence of its lines
    epiFile,     \* episodic.jsonl: the sequence of its lines
    call,        \* the last call made and its arguments (NoCall when not recorded)
    result,      \* how that call ended: its return value, or that it raised
    prev,        \* the store file as it was before that call
    run,         \* n when the same rule was saved n times in a row into an empty store
    rwDisk,      \* a rewrite's view of the disk: the store file and its temporary sibling
    rwPc,        \* where the rewrite in progress stands
    rwJob,       \* the rewrite in progress: function, rows, handle, writes done
    rwOld        \* the store file's content when the rewrite began

callVars == <<call, result, prev, run>>
rwVars == <<rwDisk, rwPc, rwJob, rwOld>>
vars == <<semFile, procFile, epiFile, callVars, rwVars>>

(***************************************************************************)
(* Bounds of the model.                                                    *)
(***************************************************************************)
MaxDerived == 2
MaxRules == 3

(***************************************************************************)
(* Values                                                                  *)
(***************************************************************************)
NoneV == [t |-> "none"]
Str(s) == [t |-> "str", s |-> s]
Num(v) == [t |-> "num", v |-> v]
Bool(b) == [t |-> "bool", b |-> b]

None == [isNone |-> TRUE]
EmptyStr == <<"">>

Min2(a, b) == IF a <= b THEN a ELSE b
Max2(a, b) == IF a >= b THEN a ELSE b
SetMin(S) == CHOOSE x \in S : \A y \in S : x <= y
SetMax(S) == CHOOSE x \in S : \A y \in S : x >= y

(***************************************************************************)
(* Text primitives                                                         *)
(***************************************************************************)
RECURSIVE lstrip(_)
lstrip(s) ==
    IF Len(s) > 1 /\ s[1] = "" THEN lstrip(Tail(s)) ELSE s

RECURSIVE rstrip(_)
rstrip(s) ==
    IF Len(s) > 1 /\ s[Len(s)] = "" THEN rstrip(SubSeq(s, 1, Len(s) - 1)) ELSE s

\* str.strip()
strip(s) == rstrip(lstrip(s))

\* str.lower() of one chunk, over the vocabulary of the model
LowerChunk(w) ==
    CASE w = "A" -> "a"
      [] w = "B" -> "b"
      [] w = "Always" -> "always"
      [] w = "You" -> "you"
      [] w = "True" -> "true"
      [] w = "YES" -> "yes"
      [] OTHER -> w

\* str.lower()
lower(s) == [i \in 1..Len(s) |-> LowerChunk(s[i])]

\* re.compile(r"[a-z0-9]+").findall on one chunk, over the vocabulary of the model
FindallChunk(w) ==
    CASE w = "" -> {}
      [] w = "!" -> {}
      [] w = "A" -> {}
      [] w = "B" -> {}
      [] w = "Always" -> {"lways"}
      [] w = "You" -> {"ou"}
      [] w = "True" -> {"rue"}
      [] w = "YES" -> {}
      [] w = "b-c" -> {"b", "c"}
      [] OTHER -> {w}

\* f"{x} {y}"
Fmt2(x, y) == x \o y

\* Python truthiness of a str
Truthy(s) == s # EmptyStr

(***************************************************************************)
(* semantic_store.py                                                       *)
(***************************************************************************)
SIMILARITY_THRESHOLD == 60
CONFIDENCE_INCREMENT == 10
ConfOne == 100

\* A line of a store file is a record as the store's rewrite (or save_experience)
\* wrote it, or one of the three lines below, which other writers leave behind.
\* line.strip() is empty
Blank == [raw |-> "blank"]
\* json.loads(payload) raises
Unparsable == [raw |-> "unparsable"]
\* json.loads(payload) returns value: a tagged value, or a dict of tagged values
Json(value) == [raw |-> "json", value |-> value]

IsRaw(line) == "raw" \in DOMAIN line

\* `if not payload: continue`, and the `continue` under `except Exception`
Skipped(line) == IsRaw(line) /\ line.raw \in {"blank", "unparsable"}

\* isinstance(value, dict): the dicts of the model have no key "t"
IsDict(value) == "t" \notin DOMAIN value

\* a rule dict as _normalize_rule returns it, seen as a dict of tagged values
AsDict(r) ==
    [rule |-> Str(r.rule), context |-> Str(r.context),
     confidence |-> Num(r.confidence), derived_from |-> Num(r.derived_from)]

\* _normalize_rule without the clamp of confidence to [0, 1]
_normalize_rule_unclamped(rule_data) ==
    IF ~IsDict(rule_data) THEN None
    ELSE IF rule_data.rule.t # "str" \/ ~Truthy(strip(rule_data.rule.s)) THEN None
    ELSE IF rule_data.confidence.t # "num" THEN None
    ELSE IF rule_data.derived_from.t # "num" THEN None
    ELSE [rule |-> strip(rule_data.rule.s),
          context |-> IF rule_data.context.t = "str"
                      THEN strip(rule_data.context.s) ELSE EmptyStr,
          confidence |-> rule_data.confidence.v,
          derived_from |-> Max2(0, rule_data.derived_from.v)]

_normalize_rule(rule_data) ==
    IF ~IsDict(rule_data) THEN None
    ELSE IF rule_data.rule.t # "str" \/ ~Truthy(strip(rule_data.rule.s)) THEN None
    ELSE IF rule_data.confidence.t # "num" THEN None
    ELSE IF rule_data.derived_from.t # "num" THEN None
    ELSE [rule |-> strip(rule_data.rule.s),
          context |-> IF rule_data.context.t = "str"
                      THEN strip(rule_data.context.s) ELSE EmptyStr,
          confidence |-> Max2(0, Min2(ConfOne, rule_data.confidence.v)),
          derived_from |-> Max2(0, rule_data.derived_from.v)]

_rule_text(rule_data) == lower(strip(Fmt2(rule_data.rule, rule_data.context)))

_token_set(text) == UNION {FindallChunk(text[i]) : i \in 1..Len(text)}

\* _token_overlap_ratio dividing by the smaller set instead of the larger
_token_overlap_ratio_min(left, right) ==
    IF left = {} \/ right = {} THEN [num |-> 0, den |-> 1]
    ELSE [num |-> Cardinality(left \cap right),
          den |-> Min2(Cardinality(left), Cardinality(right))]

\* the ratio as a fraction num/den
_token_overlap_ratio(left, right) ==
    IF left = {} \/ right = {} THEN [num |-> 0, den |-> 1]
    ELSE [num |-> Cardinality(left \cap right),
          den |-> Max2(Cardinality(left), Cardinality(right))]

_is_similar_rule(left, right) ==
    LET Reaches(overlap) == overlap.num * 100 >= SIMILARITY_THRESHOLD * overlap.den
        Similar(left_text, right_text) ==
            IF Truthy(left_text) /\ left_text = right_text THEN TRUE
            ELSE Reaches(_token_overlap_ratio(_token_set(left_text), _token_set(right_text)))
    IN  Similar(_rule_text(left), _rule_text(right))

\* The oracle of one call: absent (llm is None), raising, or answering `response`:
\* response.json is "invalid" (json.loads raises), "other" (valid JSON, not an
\* object) or "dict", with the object's three fields as tagged values.
LlmNone == [present |-> FALSE, raises |-> FALSE, response |-> NoneV]
LlmRaise == [present |-> TRUE, raises |-> TRUE, response |-> NoneV]
LlmAnswer(resp) == [present |-> TRUE, raises |-> FALSE, response |-> resp]

Verdict(similar, canonical_rule, canonical_context) ==
    [similar |-> similar, canonical_rule |-> canonical_rule,
     canonical_context |-> canonical_context]

_parse_similarity_response(response) ==
    IF response.json = "invalid" THEN Verdict(FALSE, EmptyStr, EmptyStr)
    ELSE
        LET similar_raw == IF response.json = "dict" THEN response.similar ELSE Bool(FALSE)
            similar ==
                IF similar_raw.t = "bool" THEN similar_raw.b
                ELSE IF similar_raw.t = "str"
                     THEN lower(strip(similar_raw.s)) \in {<<"true">>, <<"yes">>, <<"y">>}
                     ELSE FALSE
            canonical_rule ==
                IF response.json = "dict" /\ response.canonical_rule.t = "str"
                THEN strip(response.canonical_rule.s) ELSE EmptyStr
            canonical_context ==
                IF response.json = "dict" /\ response.canonical_context.t = "str"
                THEN strip(response.canonical_context.s) ELSE EmptyStr
        IN  IF ~similar THEN Verdict(FALSE, EmptyStr, EmptyStr)
            ELSE Verdict(TRUE, canonical_rule, canonical_context)

\* _llm_similarity_decision without the try/except around llm.generate
_llm_similarity_decision_uncaught(existing, incoming, llm) ==
    LET Parsed(parsed, heuristic) ==
            IF parsed.similar
            THEN [raised |-> FALSE, similar |-> TRUE,
                  canonical_rule |-> parsed.canonical_rule,
                  canonical_context |-> parsed.canonical_context]
            ELSE heuristic
        Decide(heuristic) ==
            IF ~llm.present THEN heuristic
            ELSE IF llm.raises THEN [heuristic EXCEPT !.raised = TRUE, !.similar = FALSE]
            ELSE Parsed(_parse_similarity_response(llm.response), heuristic)
    IN  Decide([raised |-> FALSE, similar |-> _is_similar_rule(existing, incoming),
                canonical_rule |-> EmptyStr, canonical_context |-> EmptyStr])

\* _llm_similarity_decision returning the oracle's answer whenever it answered
_llm_similarity_decision_trusting(existing, incoming, llm) ==
    LET Parsed(parsed) ==
            [raised |-> FALSE, similar |-> parsed.similar,
             canonical_rule |-> parsed.canonical_rule,
             canonical_context |-> parsed.canonical_context]
        Decide(heuristic) ==
            IF ~llm.present THEN heuristic
            ELSE IF llm.raises THEN heuristic
            ELSE Parsed(_parse_similarity_response(llm.response))
    IN  Decide([raised |-> FALSE, similar |-> _is_similar_rule(existing, incoming),
                canonical_rule |-> EmptyStr, canonical_context |-> EmptyStr])

\* outcome: [raised, similar, canonical_rule, canonical_context]; heuristic is the
\* answer of _is_similar_rule, given when there is no oracle, when it raises and when
\* it does not say "similar"
_llm_similarity_decision(existing, incoming, llm) ==
    LET Parsed(parsed, heuristic) ==
            IF parsed.similar
            THEN [raised |-> FALSE, similar |-> TRUE,
                  canonical_rule |-> parsed.canonical_rule,
                  canonical_context |-> parsed.canonical_context]
            ELSE heuristic
        Decide(heuristic) ==
            IF ~llm.present THEN heuristic
            ELSE IF llm.raises THEN heuristic
            ELSE Parsed(_parse_similarity_response(llm.response), heuristic)
    IN  Decide([raised |-> FALSE, similar |-> _is_similar_rule(existing, incoming),
                canonical_rule |-> EmptyStr, canonical_context |-> EmptyStr])

\* _merge_rule taking confidence and derived_from from the existing rule alone
_merge_rule_existing_only(existing, incoming, canonical_rule, canonical_context) ==
    LET merged_rule == IF Truthy(strip(canonical_rule)) THEN strip(canonical_rule)
                       ELSE existing.rule
        merged_context ==
            IF Truthy(strip(canonical_context)) THEN strip(canonical_context)
            ELSE IF Truthy(existing.context) THEN existing.context ELSE incoming.context
    IN  [rule |-> merged_rule, context |-> merged_context,
         confidence |-> Min2(100, existing.confidence + 10),
         derived_from |-> existing.derived_from + 1]

\* _merge_rule without the confidence increment
_merge_rule_no_increment(existing, incoming, canonical_rule, canonical_context) ==
    LET merged_rule == IF Truthy(strip(canonical_rule)) THEN strip(canonical_rule)
                       ELSE existing.rule
        merged_context ==
            IF Truthy(strip(canonical_context)) THEN strip(canonical_context)
            ELSE IF Truthy(existing.context) THEN existing.context ELSE incoming.context
    IN  [rule |-> merged_rule, context |-> merged_context,
         confidence |-> Max2(existing.confidence, incoming.confidence),
         derived_from |-> Max2(existing.derived_from, incoming.derived_from) + 1]

\* _merge_rule joining the two rule texts
_merge_rule_concatenating(existing, incoming, canonical_rule, canonical_context) ==
    [rule |-> existing.rule \o incoming.rule,
     context |-> IF Truthy(existing.context) THEN existing.context ELSE incoming.context,
     confidence |-> Min2(ConfOne, Max2(existing.confidence, incoming.confidence)
                                  + CONFIDENCE_INCREMENT),
     derived_from |-> Max2(existing.derived_from, incoming.derived_from) + 1]

\* _merge_rule preferring the incoming rule's text to the existing one's
_merge_rule_incoming_text(existing, incoming, canonical_rule, canonical_context) ==
    [rule |-> IF Truthy(strip(canonical_rule)) THEN strip(canonical_rule)
              ELSE IF Truthy(incoming.rule) THEN incoming.rule ELSE existing.rule,
     context |-> IF Truthy(strip(canonical_context)) THEN strip(canonical_context)
                 ELSE IF Truthy(existing.context) THEN existing.context
                 ELSE incoming.context,
     confidence |-> Min2(ConfOne, Max2(existing.confidence, incoming.confidence)
                                  + CONFIDENCE_INCREMENT),
     derived_from |-> Max2(existing.derived_from, incoming.derived_from) + 1]

_merge_rule(existing, incoming, canonical_rule, canonical_context) ==
    LET Normalized(normalized) == IF normalized # None THEN normalized ELSE existing
        Merged(merged_rule, merged_context, base_confidence, base_derived_from) ==
            Normalized(_normalize_rule(AsDict(
                [rule |-> merged_rule, context |-> merged_context,
                 confidence |-> Min2(ConfOne, base_confidence + CONFIDENCE_INCREMENT),
                 derived_from |-> base_derived_from + 1])))
        \* if not merged_rule: merged_rule = incoming_rule or existing_rule
        OrIncoming(merged_rule, existing_rule, incoming_rule) ==
            IF Truthy(merged_rule) THEN merged_rule
            ELSE IF Truthy(incoming_rule) THEN incoming_rule ELSE existing_rule
        MergedRule(existing_rule, incoming_rule) ==
            OrIncoming(IF Truthy(strip(canonical_rule)) THEN strip(canonical_rule)
                       ELSE IF Truthy(existing_rule) THEN existing_rule ELSE incoming_rule,
                       existing_rule, incoming_rule)
        MergedContext(existing_context, incoming_context) ==
            IF Truthy(strip(canonical_context)) THEN strip(canonical_context)
            ELSE IF Truthy(existing_context) THEN existing_context ELSE incoming_context
    IN  Merged(MergedRule(strip(existing.rule), strip(incoming.rule)),
               MergedContext(strip(existing.context), strip(incoming.context)),
               Max2(existing.confidence, incoming.confidence),
               Max2(existing.derived_from, incoming.derived_from))

\* the file after the rewrite: one line per rule, installed by the final rename
_rewrite_rules_safely(rules) == rules

\* the lines that parse and normalize, normalized, in file order
load_semantic_rules(file) ==
    LET Parsed(line) == IF IsRaw(line) THEN line.value ELSE AsDict(line)
        keep == {i \in 1..Len(file) :
                    ~Skipped(file[i]) /\ _normalize_rule(Parsed(file[i])) # None}
        F[i \in 0..Len(file)] ==
            IF i = 0 THEN <<>>
            ELSE IF i \in keep THEN Append(F[i - 1], _normalize_rule(Parsed(file[i])))
                 ELSE F[i - 1]
    IN  F[Len(file)]

\* one iteration of the loop of _consolidate_with_llm over `rule`: the inner loop stops
\* at the first existing rule whose decision is "similar" and merges there
ConsolidateStep(acc, rule, llm) ==
    LET Stops(dec) == dec.raised \/ dec.similar
        Dec(i, normalized) == _llm_similarity_decision(acc.value[i], normalized, llm)
        MergeAt(index, dec, normalized) ==
            IF dec.raised THEN [acc EXCEPT !.raised = TRUE]
            ELSE [acc EXCEPT !.value[index] =
                      _merge_rule(@, normalized, dec.canonical_rule, dec.canonical_context)]
        AtFirst(index, normalized) == MergeAt(index, Dec(index, normalized), normalized)
        Inner(stops, normalized) ==
            IF stops = {} THEN [acc EXCEPT !.value = Append(@, normalized)]
            ELSE AtFirst(SetMin(stops), normalized)
        Step(normalized) ==
            IF normalized = None THEN acc
            ELSE Inner({i \in 1..Len(acc.value) : Stops(Dec(i, normalized))}, normalized)
    IN  Step(_normalize_rule(AsDict(rule)))

RECURSIVE ConsolidateFrom(_, _, _, _)
ConsolidateFrom(rules, k, acc, llm) ==
    IF k > Len(rules) \/ acc.raised THEN acc
    ELSE ConsolidateFrom(rules, k + 1, ConsolidateStep(acc, rules[k], llm), llm)

\* outcome: [value |-> consolidated list, raised]
_consolidate_with_llm(rules, llm) ==
    ConsolidateFrom(rules, 1, [value |-> <<>>, raised |-> FALSE], llm)

\* the first loop of _merge_incoming_with_existing, from index k on
RECURSIVE MergeIncomingFrom(_, _, _, _)
MergeIncomingFrom(existing_rules, k, acc, llm) ==
    LET After(dec) ==
            IF dec.raised THEN [acc EXCEPT !.raised = TRUE]
            ELSE IF ~dec.similar THEN acc
            ELSE [acc EXCEPT
                     !.merged_rule = _merge_rule(existing_rules[k], acc.merged_rule,
                                                 dec.canonical_rule, dec.canonical_context),
                     !.matched_indices = Append(@, k)]
    IN  IF k > Len(existing_rules) \/ acc.raised THEN acc
        ELSE MergeIncomingFrom(existing_rules, k + 1,
                 After(_llm_similarity_decision(existing_rules[k], acc.merged_rule, llm)),
                 llm)

\* _merge_incoming_with_existing returning the existing rules without the incoming one
_merge_incoming_with_existing_dropping(existing_rules, incoming_rule, llm) ==
    [value |-> existing_rules, raised |-> FALSE]

\* _merge_incoming_with_existing merging into the first matching rule only
_merge_incoming_with_existing_first_only(existing_rules, incoming_rule, llm) ==
    ConsolidateStep([value |-> existing_rules, raised |-> FALSE], incoming_rule, llm)

\* outcome: [value |-> updated list, raised]
_merge_incoming_with_existing(existing_rules, incoming_rule, llm) ==
    LET Updated(acc) ==
            LET matched_lookup ==
                    {acc.matched_indices[j] : j \in 1..Len(acc.matched_indices)}
                U[i \in 0..Len(existing_rules)] ==
                    IF i = 0 THEN <<>>
                    ELSE IF i \in matched_lookup
                         THEN IF i = acc.matched_indices[1]
                              THEN Append(U[i - 1], acc.merged_rule)
                              ELSE U[i - 1]
                         ELSE Append(U[i - 1], existing_rules[i])
            IN  IF acc.raised THEN [value |-> existing_rules, raised |-> TRUE]
                ELSE IF acc.matched_indices = <<>>
                     THEN [value |-> Append(existing_rules, incoming_rule), raised |-> FALSE]
                     ELSE [value |-> U[Len(existing_rules)], raised |-> FALSE]
    IN  Updated(MergeIncomingFrom(existing_rules, 1,
                    [merged_rule |-> incoming_rule, matched_indices |-> <<>>,
                     raised |-> FALSE], llm))

\* outcome: [file |-> the file afterwards, raised]
save_semantic_rule(file, rule_data, llm) ==
    LET Unsaved(raised) == [file |-> file, raised |-> raised]
        \* final_rules = _consolidate_with_llm(updated_rules, llm); the rewrite
        Finish(final_rules) ==
            IF final_rules.raised THEN Unsaved(TRUE)
            ELSE [file |-> _rewrite_rules_safely(final_rules.value), raised |-> FALSE]
        AfterMerge(updated_rules) ==
            IF updated_rules.raised THEN Unsaved(TRUE)
            ELSE Finish(_consolidate_with_llm(updated_rules.value, llm))
        AfterLoad(current_rules, normalized) ==
            IF current_rules.raised THEN Unsaved(TRUE)
            ELSE AfterMerge(_merge_incoming_with_existing(current_rules.value,
                                                          normalized, llm))
        Save(normalized) ==
            IF normalized = None THEN Unsaved(FALSE)
            ELSE AfterLoad(_consolidate_with_llm(load_semantic_rules(file), llm), normalized)
    IN  Save(_normalize_rule(rule_data))

(***************************************************************************)
(* The semantic store under save_semantic_rule calls                       *)
(***************************************************************************)
RuleDict(rule, context, confidence, derived_from) ==
    [rule |-> rule, context |-> context, confidence |-> confidence,
     derived_from |-> derived_from]

\* the rules saved: four mutually related texts, a padded upper-case spelling of
\* the first with out-of-range numbers, and records _normalize_rule rejects
ValidSemInputs ==
    { RuleDict(Str(<<"a", "b", "c", "d">>), Str(EmptyStr), Num(50), Num(0)),
      RuleDict(Str(<<"a", "c", "f", "g">>), NoneV, Num(50), Num(0)),
      RuleDict(Str(<<"b", "c", "f">>), Str(EmptyStr), Num(95), Num(0)),
      RuleDict(Str(<<"c">>), Str(<<"d", "f">>), Num(50), Num(0)),
      RuleDict(Str(<<"", "A", "b", "c", "d", "">>), Str(<<"", "">>), Num(130), Num(-1)) }

InvalidSemInputs ==
    { RuleDict(Str(<<"", "">>), Str(<<"d">>), Num(50), Num(0)),
      RuleDict(Str(<<"c">>), Str(EmptyStr), NoneV, Num(0)) }

SemInputs == ValidSemInputs \cup InvalidSemInputs

Llms == {LlmNone, LlmRaise}

WithinSemBounds(file) ==
    /\ Len(file) <= MaxRules
    /\ \A i \in 1..Len(file) : file[i].derived_from <= MaxDerived

NoCall == [op |-> "none"]
Pending == [done |-> FALSE]
Returned(value) == [done |-> TRUE, raised |-> FALSE, value |-> value]
Raised == [done |-> TRUE, raised |-> TRUE]

SemInit == semFile = <<>>
ProcInit == procFile = <<>>
EpiInit == epiFile = <<>>
Absent == [exists |-> FALSE]
RwInit ==
    /\ rwDisk = [store |-> <<>>, temp |-> Absent]
    /\ rwPc = "idle"
    /\ rwJob = [fn |-> "none"]
    /\ rwOld = <<>>
CallInit == call = NoCall /\ result = Pending /\ prev = <<>> /\ run = 0

\* one save_semantic_rule call on the store
SaveSemanticRule(rule_data, llm) ==
    \E out \in {save_semantic_rule(semFile, rule_data, llm)} :
        /\ WithinSemBounds(out.file)
        /\ semFile' = out.file

Init == SemInit /\ ProcInit /\ EpiInit /\ CallInit /\ RwInit

SemSave ==
    /\ \E rule_data \in SemInputs : SaveSemanticRule(rule_data, LlmNone)
    /\ UNCHANGED <<procFile, epiFile, callVars, rwVars>>

Next == SemSave

Spec == Init /\ [][Next]_vars

(***************************************************************************)
(* C1                                                                      *)
(***************************************************************************)
NoSimilarPair(rules) ==
    \A i \in 1..Len(rules) : \A j \in 1..Len(rules) :
        i < j => ~_is_similar_rule(rules[i], rules[j])

\* C1: from an empty file, after any sequence of save_semantic_rule calls with
\* llm=None, no two rules of the persisted file are similar under _is_similar_rule.
C1_NoTwoPersistedRulesSimilar == NoSimilarPair(load_semantic_rules(semFile))

(***************************************************************************)
(* _consolidate_with_llm as a function of its argument                     *)
(***************************************************************************)
MaxList == 3

\* the valid rules, as load_semantic_rules returns them
ConsRules == {_normalize_rule(d) : d \in ValidSemInputs}

RECURSIVE SeqsUpTo(_, _)
SeqsUpTo(S, n) ==
    IF n = 0 THEN {<<>>}
    ELSE LET shorter == SeqsUpTo(S, n - 1)
         IN  shorter \cup {Append(q, x) : q \in shorter, x \in S}

ConsInit ==
    /\ SemInit /\ ProcInit /\ EpiInit /\ RwInit
    /\ call \in {[op |-> "_consolidate_with_llm", rules |-> X] : X \in SeqsUpTo(ConsRules, MaxList)}
    /\ result = Pending
    /\ prev = <<>>
    /\ run = 0

ConsApply ==
    /\ ~result.done
    /\ result' = Returned(_consolidate_with_llm(call.rules, LlmNone).value)
    /\ UNCHANGED <<semFile, procFile, epiFile, call, prev, run, rwVars>>

ConsNext == ConsApply

ConsSpec == ConsInit /\ [][ConsNext]_vars

\* C2: _consolidate_with_llm(_consolidate_with_llm(X, None), None) equals
\* _consolidate_with_llm(X, None) for every list X of valid semantic rules.
C2_ConsolidationIdempotent ==
    result.done => _consolidate_with_llm(result.value, LlmNone).value = result.value

(***************************************************************************)
(* The semantic store with the calls recorded                              *)
(***************************************************************************)
TraceInputs ==
    { RuleDict(Str(<<"a", "c", "f", "g">>), NoneV, Num(50), Num(0)),
      RuleDict(Str(<<"b", "c", "f">>), Str(EmptyStr), Num(95), Num(0)),
      RuleDict(Str(<<"c">>), Str(<<"d", "f">>), Num(50), Num(1)),
      RuleDict(Str(<<"", "A", "c", "f", "g">>), Str(<<"", "">>), Num(130), Num(-1)),
      RuleDict(Str(<<"", "">>), Str(<<"d">>), Num(50), Num(0)) }

TracedSave(rule_data, llm) ==
    \E out \in {save_semantic_rule(semFile, rule_data, llm)} :
        /\ WithinSemBounds(out.file)
        /\ semFile' = out.file
        /\ UNCHANGED <<procFile, epiFile, rwVars>>
        /\ call' = [op |-> "save_semantic_rule", rule_data |-> rule_data, llm |-> llm]
        /\ result' = IF out.raised THEN Raised ELSE Returned(None)
        /\ prev' = semFile
        /\ run' =
             IF llm = LlmNone /\ _normalize_rule(rule_data) # None
                /\ (semFile = <<>> \/ (run > 0 /\ call.rule_data = rule_data))
             THEN run + 1 ELSE 0

TraceSave == \E rule_data \in TraceInputs, llm \in Llms : TracedSave(rule_data, llm)

TraceNext == TraceSave

TraceSpec == Init /\ [][TraceNext]_vars

\* token overlap |A n B| / max(|A|, |B|) >= 0.6 of two rules' texts
OverlapAtLeastThreshold(left, right) ==
    LET overlap == _token_overlap_ratio(_token_set(_rule_text(left)),
                                        _token_set(_rule_text(right)))
    IN  overlap.num * 100 >= SIMILARITY_THRESHOLD * overlap.den

IsSave == call.op = "save_semantic_rule"

\* C7: saving the same valid rule (confidence c, derived_from d) n+1 times in a row
\* with llm=None into an empty store leaves exactly one record with the rule and
\* context of the first save, confidence min(1.0, c + 0.1*n) and derived_from d + n,
\* and confidence and derived_from never decrease along the sequence.
C7_Reinforcement ==
    [][run' >= 1 =>
        LET first == _normalize_rule(call'.rule_data)
            n == run' - 1
        IN  /\ semFile' = << [rule |-> first.rule, context |-> first.context,
                              confidence |-> Min2(ConfOne, first.confidence
                                                  + CONFIDENCE_INCREMENT * n),
                              derived_from |-> first.derived_from + n] >>
            /\ run' >= 2 =>
                  /\ semFile'[1].confidence >= semFile[1].confidence
                  /\ semFile'[1].derived_from >= semFile[1].derived_from]_vars

\* three saves of a rule of confidence 0.95: the cap at 1.0 is reached and kept
C7_Witness ==
    /\ run = 3
    /\ _normalize_rule(call.rule_data).confidence = 95
    /\ semFile[1].confidence = ConfOne
    /\ semFile[1].derived_from = 2

AlwaysValidate == <<"Always", "validate", "inputs", "before", "processing">>
YouShould ==
    <<"You", "should", "always", "validate", "inputs", "before", "you", "process", "them">>

ExampleInputs ==
    { RuleDict(Str(text), Str(EmptyStr), Num(c), Num(d)) :
        text \in {AlwaysValidate, YouShould}, c \in {50, 95}, d \in {0, 1} }

ExampleSave == \E rule_data \in ExampleInputs : TracedSave(rule_data, LlmNone)

ExampleNext == ExampleSave

ExampleSpec == Init /\ [][ExampleNext]_vars

SavedAfter(first, second) ==
    /\ IsSave
    /\ Len(prev) = 1 /\ prev[1].rule = first /\ prev[1].context = EmptyStr
    /\ call.rule_data.rule = Str(second) /\ call.rule_data.context = Str(EmptyStr)

\* C9 as stated: with no oracle and empty contexts, saving "Always validate inputs
\* before processing" and then "You should always validate inputs before you process
\* them" leaves a single merged record.
C9_ExampleMergesIntoOne ==
    SavedAfter(AlwaysValidate, YouShould) => Len(semFile) = 1

\* C9 amended: the two rules share 4 of max(5, 8) tokens, an overlap of 0.5 < 0.6,
\* so the second save appends: the store holds both records, unmerged.
C9_ExampleStaysTwoRecords ==
    SavedAfter(AlwaysValidate, YouShould) =>
        /\ _token_overlap_ratio(_token_set(_rule_text(prev[1])),
                                _token_set(_rule_text(_normalize_rule(call.rule_data))))
             = [num |-> 4, den |-> 8]
        /\ semFile = <<prev[1], _normalize_rule(call.rule_data)>>

C9_Witness ==
    /\ SavedAfter(AlwaysValidate, YouShould)
    /\ Len(semFile) = 2
    /\ semFile[2].rule = YouShould

(***************************************************************************)
(* procedural_store.py                                                     *)
(***************************************************************************)
List(items) == [t |-> "list", items |-> items]

\* f"{x} {y} {z}"
Fmt3(x, y, z) == x \o y \o z

\* " ".join(strings)
RECURSIVE JoinSpace(_)
JoinSpace(strings) ==
    IF strings = <<>> THEN EmptyStr
    ELSE IF Len(strings) = 1 THEN strings[1]
    ELSE strings[1] \o JoinSpace(Tail(strings))

\* a strategy dict as _normalize_strategy returns it, seen as a dict of tagged values
AsStrategyDict(r) ==
    [strategy_name |-> Str(r.strategy_name),
     applicable_context |-> Str(r.applicable_context),
     steps_template |-> List([i \in 1..Len(r.steps_template) |-> Str(r.steps_template[i])]),
     confidence |-> Num(r.confidence), derived_from |-> Num(r.derived_from)]

\* the loop of _normalize_strategy over steps_template
RECURSIVE NormalizedSteps(_)
NormalizedSteps(items) ==
    IF items = <<>> THEN <<>>
    ELSE LET step == items[1]
         IN  IF step.t = "str" /\ Truthy(strip(step.s))
             THEN <<strip(step.s)>> \o NormalizedSteps(Tail(items))
             ELSE NormalizedSteps(Tail(items))

_normalize_strategy(strategy) ==
    IF ~IsDict(strategy) THEN None
    ELSE IF strategy.strategy_name.t # "str" \/ ~Truthy(strip(strategy.strategy_name.s))
    THEN None
    ELSE IF strategy.steps_template.t # "list" THEN None
    ELSE IF NormalizedSteps(strategy.steps_template.items) = <<>> THEN None
    ELSE IF strategy.confidence.t # "num" THEN None
    ELSE IF strategy.derived_from.t # "num" THEN None
    ELSE [strategy_name |-> strip(strategy.strategy_name.s),
          applicable_context |->
              IF strategy.applicable_context.t = "str"
              THEN strip(strategy.applicable_context.s) ELSE EmptyStr,
          steps_template |-> NormalizedSteps(strategy.steps_template.items),
          confidence |-> Max2(0, Min2(ConfOne, strategy.confidence.v)),
          derived_from |-> Max2(0, strategy.derived_from.v)]

_strategy_text(strategy) ==
    lower(strip(Fmt3(strategy.strategy_name, strategy.applicable_context,
                     JoinSpace(strategy.steps_template))))

_is_similar_strategy(left, right) ==
    LET Reaches(overlap) == overlap.num * 100 >= SIMILARITY_THRESHOLD * overlap.den
        Similar(left_text, right_text) ==
            IF Truthy(left_text) /\ left_text = right_text THEN TRUE
            ELSE Reaches(_token_overlap_ratio(_token_set(left_text), _token_set(right_text)))
    IN  Similar(_strategy_text(left), _strategy_text(right))

\* the loop of _merge_strategy over incoming_steps
RECURSIVE MergedSteps(_, _, _)
MergedSteps(merged_steps, step_index, incoming_steps) ==
    LET Add(step_text) ==
            IF ~Truthy(step_text) \/ lower(step_text) \in step_index
            THEN MergedSteps(merged_steps, step_index, Tail(incoming_steps))
            ELSE MergedSteps(Append(merged_steps, step_text),
                             step_index \cup {lower(step_text)},
                             Tail(incoming_steps))
    IN  IF incoming_steps = <<>> THEN merged_steps
        ELSE Add(strip(incoming_steps[1]))

_merge_strategy(existing, incoming) ==
    LET Merged(existing_context, incoming_context, existing_steps, merged_steps) ==
            [strategy_name |-> existing.strategy_name,
             applicable_context |->
                 IF ~Truthy(existing_context) /\ Truthy(incoming_context)
                 THEN incoming_context ELSE existing.applicable_context,
             steps_template |-> IF merged_steps # <<>> THEN merged_steps ELSE existing_steps,
             confidence |-> Min2(ConfOne, existing.confidence + CONFIDENCE_INCREMENT),
             derived_from |-> existing.derived_from + 1]
        StepIndex(existing_steps) ==
            {lower(existing_steps[i]) : i \in 1..Len(existing_steps)}
    IN  Merged(strip(existing.applicable_context), strip(incoming.applicable_context),
               existing.steps_template,
               MergedSteps(existing.steps_template, StepIndex(existing.steps_template),
                           incoming.steps_template))

\* one iteration of the loop of _consolidate_strategies over `strategy`: merged into
\* the first similar strategy (break), appended when there is none
\* the loop body of _consolidate_strategies without `merged = True`: the strategy is
\* merged into the first similar one and appended as well
ConsolidateStrategyStep_never_merged(consolidated, strategy) ==
    LET Inner(hits, normalized) ==
            IF hits = {} THEN Append(consolidated, normalized)
            ELSE Append([consolidated EXCEPT ![SetMin(hits)] = _merge_strategy(@, normalized)],
                        normalized)
        Step(normalized) ==
            IF normalized = None THEN consolidated
            ELSE Inner({i \in 1..Len(consolidated) :
                           _is_similar_strategy(consolidated[i], normalized)}, normalized)
    IN  Step(_normalize_strategy(AsStrategyDict(strategy)))

ConsolidateStrategyStep(consolidated, strategy) ==
    LET Inner(hits, normalized) ==
            IF hits = {} THEN Append(consolidated, normalized)
            ELSE [consolidated EXCEPT ![SetMin(hits)] = _merge_strategy(@, normalized)]
        Step(normalized) ==
            IF normalized = None THEN consolidated
            ELSE Inner({i \in 1..Len(consolidated) :
                           _is_similar_strategy(consolidated[i], normalized)}, normalized)
    IN  Step(_normalize_strategy(AsStrategyDict(strategy)))

RECURSIVE ConsolidateStrategiesFrom(_, _, _)
ConsolidateStrategiesFrom(strategies, k, consolidated) ==
    IF k > Len(strategies) THEN consolidated
    ELSE ConsolidateStrategiesFrom(strategies, k + 1,
                                   ConsolidateStrategyStep(consolidated, strategies[k]))

_consolidate_strategies(strategies) == ConsolidateStrategiesFrom(strategies, 1, <<>>)

\* the file after the rewrite: one line per strategy, installed by the final rename
_rewrite_strategies_safely(strategies) == strategies

\* the valid lines of the file, normalized, in file order
LoadedStrategies(file) ==
    LET Parsed(line) == IF IsRaw(line) THEN line.value ELSE AsStrategyDict(line)
        F[i \in 0..Len(file)] ==
            IF i = 0 THEN <<>>
            ELSE IF ~Skipped(file[i]) /\ _normalize_strategy(Parsed(file[i])) # None
                 THEN Append(F[i - 1], _normalize_strategy(Parsed(file[i])))
                 ELSE F[i - 1]
    IN  F[Len(file)]

\* load_procedural_strategies rewriting the file whatever the consolidation did
load_procedural_strategies_always_rewriting(file) ==
    LET Loaded(loaded) ==
            [value |-> _consolidate_strategies(loaded),
             file |-> _rewrite_strategies_safely(_consolidate_strategies(loaded))]
    IN  Loaded(LoadedStrategies(file))

\* outcome: [value |-> the list returned, file |-> the file afterwards]
load_procedural_strategies(file) ==
    LET Outcome(loaded, consolidated) ==
            [value |-> consolidated,
             file |-> IF consolidated # loaded
                      THEN _rewrite_strategies_safely(consolidated) ELSE file]
        Loaded(loaded) == Outcome(loaded, _consolidate_strategies(loaded))
    IN  Loaded(LoadedStrategies(file))

\* save_procedural_strategy loading the file before it looks at the strategy
save_procedural_strategy_load_first(file, strategy) ==
    LET Save(normalized, current) ==
            IF normalized = None THEN current.file
            ELSE _rewrite_strategies_safely(
                     _consolidate_strategies(Append(current.value, normalized)))
    IN  Save(_normalize_strategy(strategy), load_procedural_strategies(file))

\* the file afterwards
save_procedural_strategy(file, strategy) ==
    LET Save(normalized) ==
            IF normalized = None THEN file
            ELSE _rewrite_strategies_safely(
                     _consolidate_strategies(
                         Append(load_procedural_strategies(file).value, normalized)))
    IN  Save(_normalize_strategy(strategy))

(***************************************************************************)
(* The procedural store under save and load calls                          *)
(***************************************************************************)
MaxStrategies == 3

StrategyDict(strategy_name, applicable_context, steps_template, confidence, derived_from) ==
    [strategy_name |-> strategy_name, applicable_context |-> applicable_context,
     steps_template |-> steps_template, confidence |-> confidence,
     derived_from |-> derived_from]

ValidProcInputs ==
    { StrategyDict(Str(<<"a">>), Str(EmptyStr), List(<<Str(<<"b">>)>>), Num(50), Num(0)),
      StrategyDict(Str(<<"a">>), Str(EmptyStr), List(<<Str(<<"c">>)>>), Num(95), Num(0)),
      StrategyDict(Str(<<"a">>), NoneV, List(<<Str(<<"b">>), Str(<<"c">>)>>), Num(50), Num(1)),
      StrategyDict(Str(<<"", "A", "">>), Str(<<"d">>),
                   List(<<Str(<<"", "B">>), Str(<<"", "">>), NoneV, Str(<<"g">>)>>),
                   Num(130), Num(-1)) }

InvalidProcInputs ==
    { StrategyDict(Str(<<"a">>), Str(EmptyStr), List(<<Str(<<"">>)>>), Num(50), Num(0)),
      StrategyDict(Str(<<"", "">>), Str(EmptyStr), List(<<Str(<<"b">>)>>), Num(50), Num(0)),
      StrategyDict(Str(<<"a">>), Str(EmptyStr), Str(<<"b">>), Num(50), Num(0)),
      StrategyDict(Str(<<"a">>), Str(EmptyStr), List(<<Str(<<"b">>)>>), NoneV, Num(0)) }

ProcInputs == ValidProcInputs \cup InvalidProcInputs

WithinProcBounds(file) ==
    /\ Len(file) <= MaxStrategies
    /\ \A i \in 1..Len(file) : file[i].derived_from <= MaxDerived

ProcSave ==
    /\ \E strategy \in ProcInputs :
          \E file \in {save_procedural_strategy(procFile, strategy)} :
              WithinProcBounds(file) /\ procFile' = file
    /\ UNCHANGED <<semFile, epiFile, callVars, rwVars>>

ProcLoad ==
    /\ \E file \in {load_procedural_strategies(procFile).file} :
          WithinProcBounds(file) /\ procFile' = file
    /\ UNCHANGED <<semFile, epiFile, callVars, rwVars>>

ProcNext == ProcSave \/ ProcLoad

ProcSpec == Init /\ [][ProcNext]_vars

NoSimilarStrategies(strategies) ==
    \A i \in 1..Len(strategies) : \A j \in 1..Len(strategies) :
        i < j => ~_is_similar_strategy(strategies[i], strategies[j])

\* C3: from an empty file, after any sequence of save_procedural_strategy and
\* load_procedural_strategies calls, no two persisted strategies are similar under
\* _is_similar_strategy, so a further load merges nothing and returns the file's
\* records unchanged.
C3_NoTwoPersistedStrategiesSimilar ==
    /\ NoSimilarStrategies(LoadedStrategies(procFile))
    /\ load_procedural_strategies(procFile).value = LoadedStrategies(procFile)

(***************************************************************************)
(* _merge_rule and _merge_strategy as functions of their arguments         *)
(***************************************************************************)
MergeConfidences == {0, 50, 95, 100}
MergeDerived == {0, 2}

MergeRules ==
    { [rule |-> t[1], context |-> t[2], confidence |-> c, derived_from |-> d] :
        t \in {<<<<"b", "c", "f">>, EmptyStr>>, <<<<"c">>, <<"d", "f">>>>},
        c \in MergeConfidences, d \in MergeDerived }

MergeStrategies ==
    { [strategy_name |-> <<"a">>, applicable_context |-> EmptyStr, steps_template |-> st,
       confidence |-> c, derived_from |-> d] :
        st \in {<<<<"b">>>>, <<<<"B">>, <<"c">>>>, <<<<"c">>, <<"b">>, <<"B">>>>},
        c \in MergeConfidences \ {0}, d \in MergeDerived }

MergeInit ==
    /\ SemInit /\ ProcInit /\ EpiInit /\ RwInit
    /\ call \in {[op |-> "_merge_rule", existing |-> e, incoming |-> i] :
                     e \in MergeRules, i \in MergeRules}
                \cup {[op |-> "_merge_strategy", existing |-> e, incoming |-> i] :
                     e \in MergeStrategies, i \in MergeStrategies}
    /\ result = Pending
    /\ prev = <<>>
    /\ run = 0

MergeRuleApply ==
    /\ call.op = "_merge_rule" /\ ~result.done
    /\ result' = Returned(_merge_rule(call.existing, call.incoming, EmptyStr, EmptyStr))
    /\ UNCHANGED <<semFile, procFile, epiFile, call, prev, run, rwVars>>

MergeStrategyApply ==
    /\ call.op = "_merge_strategy" /\ ~result.done
    /\ result' = Returned(_merge_strategy(call.existing, call.incoming))
    /\ UNCHANGED <<semFile, procFile, epiFile, call, prev, run, rwVars>>

MergeNext == MergeRuleApply \/ MergeStrategyApply

MergeSpec == MergeInit /\ [][MergeNext]_vars

ReinforcedConfidence(existing, incoming) ==
    Min2(ConfOne, Max2(existing.confidence, incoming.confidence) + CONFIDENCE_INCREMENT)

ReinforcedDerivedFrom(existing, incoming) ==
    Max2(existing.derived_from, incoming.derived_from) + 1

\* C5: _merge_rule(B, A) has confidence min(1.0, max(A.confidence, B.confidence) + 0.1),
\* which is >= max(A.confidence, B.confidence), and derived_from
\* max(A.derived_from, B.derived_from) + 1, for all valid A and B.
C5_MergeRuleMonotone ==
    (call.op = "_merge_rule" /\ result.done) =>
        /\ result.value.confidence = ReinforcedConfidence(call.existing, call.incoming)
        /\ result.value.confidence >= call.existing.confidence
        /\ result.value.confidence >= call.incoming.confidence
        /\ result.value.derived_from = ReinforcedDerivedFrom(call.existing, call.incoming)

\* the incoming rule carries the higher confidence and derived_from, and the cap applies
C5_Witness ==
    /\ call.op = "_merge_rule" /\ result.done
    /\ call.incoming.confidence = 95 /\ call.existing.confidence = 50
    /\ call.incoming.derived_from = 2 /\ call.existing.derived_from = 0
    /\ result.value.confidence = ConfOne /\ result.value.derived_from = 3

\* C6: _merge_strategy computes confidence and derived_from as _merge_rule does:
\* min(1.0, max(existing, incoming) + 0.1) and max(existing, incoming) + 1, also when
\* the incoming strategy has the higher confidence or derived_from.
C6_MergeStrategyLikeMergeRule ==
    (call.op = "_merge_strategy" /\ result.done) =>
        /\ result.value.confidence = ReinforcedConfidence(call.existing, call.incoming)
        /\ result.value.derived_from = ReinforcedDerivedFrom(call.existing, call.incoming)

(***************************************************************************)
(* The rewrite of a store file, step by step:                              *)
(* _rewrite_rules_safely, _rewrite_strategies_safely, _rewrite_jsonl_safely*)
(* A file's content is the sequence of the writes that reached it: a row's *)
(* JSON text, then "\n".                                                   *)
(***************************************************************************)
MaxRows == 2

RewriteFns == {"_rewrite_rules_safely", "_rewrite_strategies_safely", "_rewrite_jsonl_safely"}

\* json.dumps of the rows a rewrite may be given
RowTexts == {"r1", "r2"}

\* the writes of the loop: handle.write(json.dumps(row)); handle.write("\n")
RECURSIVE Writes(_)
Writes(rows) ==
    IF rows = <<>> THEN <<>> ELSE <<rows[1], "\n">> \o Writes(Tail(rows))

\* the rewrite opening the store file itself for writing
NamedTemporaryFile_in_place(target) == target

\* tempfile.NamedTemporaryFile(mode="w", dir=parent, prefix=name + ".", suffix=".tmp",
\* delete=False): the file the handle writes to, given the store file's name
NamedTemporaryFile(target) == "temp"

\* ensure_*_file, then the temporary file is created empty
RewriteBegin ==
    /\ rwPc \in {"idle", "done", "crashed", "failed"}
    /\ \E fn \in RewriteFns, rows \in SeqsUpTo(RowTexts, MaxRows) :
          LET handle == NamedTemporaryFile("store")
          IN  /\ rwJob' = [fn |-> fn, rows |-> rows, handle |-> handle, written |-> 0]
              /\ rwDisk' = [[rwDisk EXCEPT !.temp = Absent] EXCEPT ![handle] = <<>>]
    /\ rwOld' = rwDisk.store
    /\ rwPc' = "opened"
    /\ UNCHANGED <<semFile, procFile, epiFile, callVars>>

\* one handle.write reaches the file
RewriteWrite ==
    /\ rwPc = "opened"
    /\ rwJob.written < Len(Writes(rwJob.rows))
    /\ rwDisk' = [rwDisk EXCEPT ![rwJob.handle] =
                      Append(@, Writes(rwJob.rows)[rwJob.written + 1])]
    /\ rwJob' = [rwJob EXCEPT !.written = @ + 1]
    /\ UNCHANGED <<semFile, procFile, epiFile, callVars, rwPc, rwOld>>

\* the with block ends: the handle is closed
RewriteClose ==
    /\ rwPc = "opened"
    /\ rwJob.written = Len(Writes(rwJob.rows))
    /\ rwPc' = "closed"
    /\ UNCHANGED <<semFile, procFile, epiFile, callVars, rwDisk, rwJob, rwOld>>

\* temp_path.replace(file_path): one atomic rename
RewriteReplace ==
    /\ rwPc = "closed"
    /\ rwDisk' = IF rwJob.handle = "temp"
                 THEN [store |-> rwDisk.temp, temp |-> Absent]
                 ELSE rwDisk
    /\ rwPc' = "done"
    /\ UNCHANGED <<semFile, procFile, epiFile, callVars, rwJob, rwOld>>

\* the process dies between two steps
RewriteCrash ==
    /\ rwPc \in {"opened", "closed"}
    /\ rwPc' = "crashed"
    /\ UNCHANGED <<semFile, procFile, epiFile, callVars, rwDisk, rwJob, rwOld>>

\* a write or the rename raises OSError, which the rewrite does not catch
RewriteFail ==
    /\ rwPc \in {"opened", "closed"}
    /\ rwPc' = "failed"
    /\ UNCHANGED <<semFile, procFile, epiFile, callVars, rwDisk, rwJob, rwOld>>

RewriteNext ==
    \/ RewriteBegin
    \/ RewriteWrite
    \/ RewriteClose
    \/ RewriteReplace
    \/ RewriteCrash
    \/ RewriteFail

RewriteSpec == Init /\ [][RewriteNext]_vars

\* C4: during every rewrite the store file holds either the complete previous content
\* or the complete new content: nothing but the final rename changes it, so a crash or
\* I/O failure after the temporary file was written leaves it unchanged, and no state
\* shows a partial file.
C4_RewriteIsAtomic ==
    /\ rwPc \in {"opened", "closed", "crashed", "failed"} => rwDisk.store = rwOld
    /\ rwPc = "done" => rwDisk.store = Writes(rwJob.rows)
    /\ \E rows \in SeqsUpTo(RowTexts, MaxRows + 1) : rwDisk.store = Writes(rows)

\* a crash after the whole new content was written to the temporary file
C4_Witness ==
    /\ rwPc = "crashed"
    /\ rwJob.written = Len(Writes(rwJob.rows))
    /\ rwDisk.temp = Writes(rwJob.rows)
    /\ rwDisk.temp # rwOld
    /\ rwOld # <<>>
    /\ rwDisk.store = rwOld

(***************************************************************************)
(* embedding_store.py                                                      *)
(* A vector is a sequence of integers. A similarity is a number of         *)
(* hundredths; the vectors of the model have integer norms and similarities*)
(* that are whole hundredths, so the model's arithmetic is exact.          *)
(***************************************************************************)
\* math.sqrt, on the squared norms of the model's vectors
Isqrt(n) == CHOOSE r \in 0..n : r * r >= n /\ (r = 0 \/ (r - 1) * (r - 1) < n)

RECURSIVE SumSeq(_)
SumSeq(s) == IF s = <<>> THEN 0 ELSE s[1] + SumSeq(Tail(s))

\* the embeddings API: down, it raises on every call; up, the payload decides
EmbedderUp == [down |-> FALSE]
EmbedderDown == [down |-> TRUE]
Embedders == {EmbedderUp, EmbedderDown}

\* the word of the payload that decides what the API answers
PayloadKey(payload) ==
    IF payload[1] = "task:" /\ Len(payload) > 1 THEN payload[2] ELSE payload[1]

\* response.data[0].embedding
ApiVector(payload) ==
    LET k == PayloadKey(payload)
    IN  CASE k = "q" -> <<1, 0, 0, 0>>
          [] k = "n" -> <<9, 3, 3, 1>>
          [] k = "h" -> <<1, 1, 1, 1>>
          [] k = "k" -> <<1, 1, 1, 1>>
          [] k = "o" -> <<0, 1, 0, 0>>
          [] k = "m" -> <<-1, 0, 0, 0>>
          [] k = "z" -> <<0, 0, 0, 0>>
          [] k = "s" -> <<1, 0>>
          [] k = "e" -> <<>>
          [] OTHER -> <<0, 0, 0, 1>>

ApiRaises(payload) == PayloadKey(payload) = "x"

\* outcome: [raised, value |-> the vector, calls |-> the payloads sent to the API]
embed_text_default_on_error(text, embedder) ==
    LET Embed(payload) ==
            IF ~Truthy(payload) THEN [raised |-> FALSE, value |-> <<>>, calls |-> <<>>]
            ELSE IF embedder.down \/ ApiRaises(payload)
                 THEN [raised |-> FALSE, value |-> <<0, 0, 0, 1>>, calls |-> <<payload>>]
                 ELSE [raised |-> FALSE, value |-> ApiVector(payload), calls |-> <<payload>>]
    IN  Embed(strip(text))

embed_text(text, embedder) ==
    LET Embed(payload) ==
            IF ~Truthy(payload) THEN [raised |-> FALSE, value |-> <<>>, calls |-> <<>>]
            ELSE IF embedder.down \/ ApiRaises(payload)
                 THEN [raised |-> TRUE, value |-> <<>>, calls |-> <<payload>>]
                 ELSE [raised |-> FALSE, value |-> ApiVector(payload), calls |-> <<payload>>]
    IN  Embed(strip(text))

compute_cosine_similarity(vec1, vec2) ==
    LET Cosine(dot, norm1, norm2) ==
            IF norm1 = 0 \/ norm2 = 0 THEN 0 ELSE (100 * dot) \div (norm1 * norm2)
    IN  IF vec1 = <<>> \/ vec2 = <<>> THEN 0
        ELSE IF Len(vec1) # Len(vec2) THEN 0
        ELSE Cosine(SumSeq([i \in 1..Len(vec1) |-> vec1[i] * vec2[i]]),
                    Isqrt(SumSeq([i \in 1..Len(vec1) |-> vec1[i] * vec1[i]])),
                    Isqrt(SumSeq([i \in 1..Len(vec2) |-> vec2[i] * vec2[i]])))

(***************************************************************************)
(* store.py, schema.py: an episodic line is a dict of tagged values; the   *)
(* fields retrieval never reads (failure_reasons, tools_used) are left     *)
(* out.                                                                    *)
(***************************************************************************)
\* MissionExperience.model_validate, on values that are of the declared type or None
ModelValidate(parsed) ==
    /\ IsDict(parsed)
    /\ parsed.timestamp.t = "str"
    /\ parsed.intent_task.t = "str"
    /\ parsed.intent_goal.t = "str"
    /\ parsed.final_plan_summary.t = "str"
    /\ parsed.result_summary.t = "str"
    /\ parsed.attempts.t = "num"
    /\ parsed.success.t = "bool"

\* record.model_dump_json(): the validated fields only
ModelDump(exp) ==
    [timestamp |-> exp.timestamp,
     intent_task |-> exp.intent_task, intent_goal |-> exp.intent_goal,
     success |-> exp.success, attempts |-> exp.attempts,
     final_plan_summary |-> exp.final_plan_summary,
     result_summary |-> exp.result_summary]

\* save_experience opening the file with mode "w"
save_experience_truncating(file, exp) ==
    IF ~ModelValidate(exp) THEN [file |-> file, raised |-> TRUE]
    ELSE [file |-> <<ModelDump(exp)>>, raised |-> FALSE]

\* outcome: [file |-> the file afterwards, raised]
save_experience(file, exp) ==
    IF ~ModelValidate(exp) THEN [file |-> file, raised |-> TRUE]
    ELSE [file |-> Append(file, ModelDump(exp)), raised |-> FALSE]

(***************************************************************************)
(* hybrid_retrieval.py                                                     *)
(***************************************************************************)
\* entry.get("embedding")
GetEmbedding(entry) ==
    IF "embedding" \in DOMAIN entry THEN entry.embedding ELSE NoneV

\* entry["embedding"] = embedding
SetEmbedding(entry, embedding) ==
    [k \in DOMAIN entry \cup {"embedding"} |->
        IF k = "embedding" THEN List(embedding) ELSE entry[k]]

\* None, or [vector |-> the list of floats]
_normalize_embedding(value) ==
    IF value.t # "list" \/ value.items = <<>> THEN None
    ELSE [vector |-> value.items]

\* the rows a rewrite installs as the file's lines
_rewrite_jsonl_safely(rows) == rows

_semantic_embedding_text(rule) == strip(Fmt2(rule.rule, rule.context))

_procedural_embedding_text(strategy) ==
    strip(Fmt3(strategy.strategy_name, strategy.applicable_context,
               JoinSpace(strategy.steps_template)))

_episodic_embedding_text(experience) ==
    strip(<<"task:">> \o experience.intent_task.s \o <<"goal:">> \o experience.intent_goal.s
          \o <<"plan:">> \o experience.final_plan_summary.s
          \o <<"result:">> \o experience.result_summary.s)

\* _ensure_embedding putting a default vector into the entry when embed_text raises
_ensure_embedding_default_on_error(entry, text, embedder) ==
    LET Ensure(current_embedding, e) ==
            IF current_embedding # None
            THEN [embedding |-> current_embedding.vector, updated |-> FALSE,
                  entry |-> entry, calls |-> <<>>]
            ELSE IF e.raised
            THEN [embedding |-> <<0, 0, 0, 1>>, updated |-> TRUE,
                  entry |-> SetEmbedding(entry, <<0, 0, 0, 1>>), calls |-> e.calls]
            ELSE [embedding |-> e.value, updated |-> TRUE,
                  entry |-> IF e.value # <<>> THEN SetEmbedding(entry, e.value) ELSE entry,
                  calls |-> e.calls]
    IN  Ensure(_normalize_embedding(GetEmbedding(entry)), embed_text(text, embedder))

\* outcome: [embedding, updated, entry |-> the entry afterwards, calls]; e is what
\* embed_text answers when it is called
_ensure_embedding(entry, text, embedder) ==
    LET Ensure(current_embedding, e) ==
            IF current_embedding # None
            THEN [embedding |-> current_embedding.vector, updated |-> FALSE,
                  entry |-> entry, calls |-> <<>>]
            ELSE IF e.raised
            THEN [embedding |-> <<>>, updated |-> FALSE, entry |-> entry, calls |-> e.calls]
            ELSE [embedding |-> e.value, updated |-> TRUE,
                  entry |-> IF e.value # <<>> THEN SetEmbedding(entry, e.value) ELSE entry,
                  calls |-> e.calls]
    IN  Ensure(_normalize_embedding(GetEmbedding(entry)), embed_text(text, embedder))

\* _load_episodic_records without the call of MissionExperience.model_validate
_load_episodic_records_unvalidated(file) ==
    LET Parsed(line) == IF IsRaw(line) THEN line.value ELSE line
        F[i \in 0..Len(file)] ==
            IF i = 0 THEN <<>>
            ELSE IF ~Skipped(file[i]) /\ IsDict(Parsed(file[i]))
                 THEN Append(F[i - 1], Parsed(file[i]))
                 ELSE F[i - 1]
    IN  F[Len(file)]

\* the valid lines of the episodic file, in file order
_load_episodic_records(file) ==
    LET Parsed(line) == IF IsRaw(line) THEN line.value ELSE line
        F[i \in 0..Len(file)] ==
            IF i = 0 THEN <<>>
            ELSE IF ~Skipped(file[i]) /\ ModelValidate(Parsed(file[i]))
                 THEN Append(F[i - 1], Parsed(file[i]))
                 ELSE F[i - 1]
    IN  F[Len(file)]

\* text = _*_embedding_text(entry), by tier
EntryText(memory_type, entry) ==
    CASE memory_type = "semantic" -> _semantic_embedding_text(entry)
      [] memory_type = "procedural" -> _procedural_embedding_text(entry)
      [] memory_type = "episodic" -> _episodic_embedding_text(entry)

\* confidence = float(entry.get("confidence", 0.0)); 0.9 if success else 0.4 for an episode
EntryConfidence(memory_type, entry) ==
    IF memory_type = "episodic"
    THEN (IF entry.success.b THEN 90 ELSE 40)
    ELSE entry.confidence

\* int(entry.get("derived_from", 0)); the attempts of an episode when they are an int
EntryDerivedFrom(memory_type, entry) ==
    IF memory_type = "episodic"
    THEN (IF entry.attempts.t = "num" THEN entry.attempts.v ELSE 0)
    ELSE entry.derived_from

\* the loop the three *_candidates functions share, from entry k on
\* acc: [candidates, entries |-> the entries afterwards, changed, calls]
RECURSIVE CandidateLoop(_, _, _, _, _, _)
CandidateLoop(entries, k, acc, memory_type, query_embedding, embedder) ==
    LET Appended(entry, text, ensured) ==
            [candidates |-> Append(acc.candidates,
                 [memory_type |-> memory_type,
                  confidence |-> EntryConfidence(memory_type, entry),
                  derived_from |-> Max2(0, EntryDerivedFrom(memory_type, entry)),
                  similarity_score |->
                      compute_cosine_similarity(query_embedding, ensured.embedding),
                  summary |-> text,
                  data |-> ensured.entry]),
             entries |-> Append(acc.entries, ensured.entry),
             changed |-> acc.changed \/ ensured.updated,
             calls |-> acc.calls \o ensured.calls]
        Step(entry, text) == Appended(entry, text, _ensure_embedding(entry, text, embedder))
    IN  IF k > Len(entries) THEN acc
        ELSE CandidateLoop(entries, k + 1,
                           Step(entries[k], EntryText(memory_type, entries[k])),
                           memory_type, query_embedding, embedder)

NoCandidates == [candidates |-> <<>>, entries |-> <<>>, changed |-> FALSE, calls |-> <<>>]

\* if changed: _rewrite_jsonl_safely(FILE, entries); return candidates
TierOutcome(loop, file) ==
    [candidates |-> loop.candidates,
     file |-> IF loop.changed THEN _rewrite_jsonl_safely(loop.entries) ELSE file,
     calls |-> loop.calls]

\* outcome: [candidates, file |-> semantic.jsonl afterwards, calls]
_semantic_candidates(file, query_embedding, embedder) ==
    TierOutcome(CandidateLoop(load_semantic_rules(file), 1, NoCandidates, "semantic",
                              query_embedding, embedder),
                file)

\* outcome: [candidates, file |-> procedural.jsonl afterwards, calls]
_procedural_candidates(file, query_embedding, embedder) ==
    LET Candidates(loaded) ==
            TierOutcome(CandidateLoop(loaded.value, 1, NoCandidates, "procedural",
                                      query_embedding, embedder),
                        loaded.file)
    IN  Candidates(load_procedural_strategies(file))

\* outcome: [candidates, file |-> episodic.jsonl afterwards, calls]
_episodic_candidates(file, query_embedding, embedder) ==
    TierOutcome(CandidateLoop(_load_episodic_records(file), 1, NoCandidates, "episodic",
                              query_embedding, embedder),
                file)

\* a rank_score, as a fraction of integers: the sum of similarity * 0.7, confidence * 0.2
\* and derived_normalized * 0.1 over the common denominator 1000 * max_derived
RankScore_confidence_heavy(similarity, confidence, derived_from, max_derived) ==
    [num |-> 2 * similarity * max_derived + 7 * confidence * max_derived + 100 * derived_from,
     den |-> 1000 * max_derived]

RankScore(similarity, confidence, derived_from, max_derived) ==
    [num |-> 7 * similarity * max_derived + 2 * confidence * max_derived + 100 * derived_from,
     den |-> 1000 * max_derived]

\* left >= right, for two fractions with positive denominators
FracGeq(left, right) == left.num * right.den >= right.num * left.den

\* max_derived of retrieve_relevant_memory
MaxDerivedOf(combined) ==
    Max2(1, SetMax({combined[i].derived_from : i \in 1..Len(combined)}))

\* {**item, "rank_score": ..., "derived_from_normalized": ...}
Ranked(item, max_derived) ==
    [memory_type |-> item.memory_type, confidence |-> item.confidence,
     derived_from |-> item.derived_from, similarity_score |-> item.similarity_score,
     summary |-> item.summary, data |-> item.data,
     rank_score |-> RankScore(item.similarity_score, item.confidence,
                              item.derived_from, max_derived),
     derived_from_normalized |-> [num |-> item.derived_from, den |-> max_derived]]

\* list.sort(key=rank_score, reverse=True): descending, and stable, so an item goes
\* behind every item already placed whose score is at least its own
RECURSIVE SortInsert(_, _)
SortInsert(sorted, item) ==
    IF sorted = <<>> THEN <<item>>
    ELSE IF FracGeq(sorted[1].rank_score, item.rank_score)
         THEN <<sorted[1]>> \o SortInsert(Tail(sorted), item)
         ELSE <<item>> \o sorted

SortByRankDescending(ranked) ==
    LET F[i \in 0..Len(ranked)] ==
            IF i = 0 THEN <<>> ELSE SortInsert(F[i - 1], ranked[i])
    IN  F[Len(ranked)]

\* outcome: [value |-> the list returned, semFile, procFile, epiFile |-> the files
\* afterwards, calls |-> the payloads sent to the embeddings API, in order]
retrieve_relevant_memory(sem, proc, epi, task, goal, top_k, embedder) ==
    LET \* return [] before any candidate function ran: no file is touched
        EarlyReturn(calls) ==
            [value |-> <<>>, semFile |-> sem, procFile |-> proc, epiFile |-> epi,
             calls |-> calls]
        RankAll(combined, max_derived) ==
            [i \in 1..Len(combined) |-> Ranked(combined[i], max_derived)]
        \* ranked.sort(...); return ranked[:top_k]
        SortAndCut(ranked) ==
            SubSeq(SortByRankDescending(ranked), 1, Min2(top_k, Len(ranked)))
        Result(combined) ==
            IF combined = <<>> THEN <<>>
            ELSE SortAndCut(RankAll(combined, MaxDerivedOf(combined)))
        Gathered(query, semantic, procedural, episodic) ==
            [value |-> Result(semantic.candidates \o procedural.candidates
                                 \o episodic.candidates),
             semFile |-> semantic.file, procFile |-> procedural.file,
             epiFile |-> episodic.file,
             calls |-> query.calls \o semantic.calls \o procedural.calls
                       \o episodic.calls]
        Embedded(query) ==
            IF query.raised \/ query.value = <<>> THEN EarlyReturn(query.calls)
            ELSE Gathered(query,
                          _semantic_candidates(sem, query.value, embedder),
                          _procedural_candidates(proc, query.value, embedder),
                          _episodic_candidates(epi, query.value, embedder))
        Query(query_text) ==
            IF ~Truthy(query_text) THEN EarlyReturn(<<>>)
            ELSE Embedded(embed_text(query_text, embedder))
    IN  IF top_k <= 0 THEN EarlyReturn(<<>>)
        ELSE Query(strip(Fmt2(strip(task), strip(goal))))

(***************************************************************************)
(* The three stores under retrieve_relevant_memory and save_experience     *)
(***************************************************************************)
MaxTopK == 4
MaxEpisodes == 2

Experience(intent_task, intent_goal, attempts, success) ==
    [timestamp |-> Str(<<"10">>),
     intent_task |-> intent_task, intent_goal |-> intent_goal,
     final_plan_summary |-> Str(<<"p">>), result_summary |-> Str(<<"r">>),
     attempts |-> attempts, success |-> success]

\* semantic.jsonl with three rules at cosine 0.9, 0.5 and 0.5 of the query "q"
ThreeRules ==
    << RuleDict(<<"n", "u">>, EmptyStr, 10, 0),
       RuleDict(<<"h", "v">>, EmptyStr, 90, 0),
       RuleDict(<<"k", "w">>, EmptyStr, 90, 10) >>

\* semantic.jsonl with a rule whose embedding raises before one opposite to the query
TwoRules ==
    << RuleDict(<<"x">>, <<"u">>, 100, 3),
       RuleDict(<<"m">>, EmptyStr, 100, 0) >>

\* procedural.jsonl as save_procedural_strategy leaves it after the strategies a/[b],
\* a/[c] and a/[b, c] were saved: two strategies alike enough to be consolidated by the
\* next load
TwoStrategies ==
    << StrategyDict(<<"a">>, EmptyStr, << <<"b">>, <<"c">> >>, 60, 1),
       StrategyDict(<<"a">>, EmptyStr, << <<"c">> >>, 95, 0) >>

\* episodic.jsonl with a line that does not validate before a failed mission whose
\* embedding is already stored
TwoEpisodes ==
    << Experience(Str(<<"n">>), Str(<<"g">>), NoneV, Bool(TRUE)),
       SetEmbedding(Experience(Str(<<"o">>), Str(EmptyStr), Num(3), Bool(FALSE)),
                    <<1, 1, 1, 1>>) >>

\* semantic.jsonl with a rule at cosine 0.9 of the query "q" that has confidence 0 and
\* derived_from 0, before one at cosine 0.5 with confidence 1.0 and derived_from 10
UnsupportedRules ==
    << RuleDict(<<"n", "u">>, EmptyStr, 0, 0),
       RuleDict(<<"h", "v">>, EmptyStr, 100, 10) >>

\* the stores at the start
Stores ==
    { [semFile |-> <<>>, procFile |-> <<>>, epiFile |-> <<>>],
      [semFile |-> ThreeRules, procFile |-> <<>>, epiFile |-> <<>>],
      [semFile |-> UnsupportedRules, procFile |-> <<>>, epiFile |-> <<>>],
      [semFile |-> TwoRules, procFile |-> TwoStrategies, epiFile |-> TwoEpisodes] }

RetrInit ==
    /\ \E stores \in Stores :
          /\ semFile = stores.semFile
          /\ procFile = stores.procFile
          /\ epiFile = stores.epiFile
    /\ CallInit /\ RwInit

Tasks == { <<"q">>, <<"e">>, <<"", "">> }
Goals == { EmptyStr, <<"g", "">> }
TopKs == {0, 1, 3, MaxTopK}

Retrieve ==
    /\ \E task \in Tasks, goal \in Goals, top_k \in TopKs, embedder \in Embedders :
          \E out \in {retrieve_relevant_memory(semFile, procFile, epiFile,
                                               task, goal, top_k, embedder)} :
              /\ semFile' = out.semFile
              /\ procFile' = out.procFile
              /\ epiFile' = out.epiFile
              /\ call' = [op |-> "retrieve_relevant_memory", task |-> task, goal |-> goal,
                          top_k |-> top_k, embedder |-> embedder, calls |-> out.calls]
              /\ result' = Returned(out.value)
    /\ prev' = [semFile |-> semFile, procFile |-> procFile, epiFile |-> epiFile]
    /\ UNCHANGED <<run, rwVars>>

Experiences ==
    { Experience(Str(<<"n">>), Str(<<"g">>), Num(1), Bool(TRUE)),
      Experience(Str(<<"x">>), Str(EmptyStr), Num(-1), Bool(FALSE)),
      Experience(Str(<<"h">>), NoneV, Num(1), Bool(TRUE)) }

SaveExperience ==
    /\ Len(epiFile) < MaxEpisodes
    /\ \E exp \in Experiences :
          \E out \in {save_experience(epiFile, exp)} :
              /\ epiFile' = out.file
              /\ call' = [op |-> "save_experience", exp |-> exp]
              /\ result' = IF out.raised THEN Raised ELSE Returned(None)
    /\ prev' = [semFile |-> semFile, procFile |-> procFile, epiFile |-> epiFile]
    /\ UNCHANGED <<semFile, procFile, run, rwVars>>

RetrNext == Retrieve \/ SaveExperience

RetrSpec == RetrInit /\ [][RetrNext]_vars

IsRetrieve == call.op = "retrieve_relevant_memory" /\ result.done /\ ~result.raised

\* the query embedding of the call made, as embed_text answered it
QueryOfCall == embed_text(strip(Fmt2(strip(call.task), strip(call.goal))), call.embedder)

\* the call got as far as gathering candidates
ReachedRanking ==
    /\ IsRetrieve
    /\ call.top_k > 0
    /\ ~QueryOfCall.raised /\ QueryOfCall.value # <<>>

\* the candidates of the three tiers, gathered from the stores as the call found them
CandidatesOfCall ==
    _semantic_candidates(prev.semFile, QueryOfCall.value, call.embedder).candidates
    \o _procedural_candidates(prev.procFile, QueryOfCall.value, call.embedder).candidates
    \o _episodic_candidates(prev.epiFile, QueryOfCall.value, call.embedder).candidates

\* a returned item without the two fields the ranking added
Unranked(item) ==
    [memory_type |-> item.memory_type, confidence |-> item.confidence,
     derived_from |-> item.derived_from, similarity_score |-> item.similarity_score,
     summary |-> item.summary, data |-> item.data]

Count(seq, x) == Cardinality({i \in 1..Len(seq) : seq[i] = x})

\* 0.7 * similarity + 0.2 * confidence + 0.1 * derived_from / max_derived, as a fraction
ClaimedScore(item, max_derived) ==
    [num |-> 7 * item.similarity_score * max_derived + 2 * item.confidence * max_derived
             + 100 * item.derived_from,
     den |-> 1000 * max_derived]

\* C10: a retrieve_relevant_memory call that gathers candidates returns them with
\* rank_score = 0.7*similarity + 0.2*confidence + 0.1*(derived_from / max(max derived_from
\* over all candidates, 1)), in non-increasing order of rank_score, cut to the first
\* top_k: min(top_k, number of candidates) items, each a candidate, none left out that
\* scores higher than a returned one. For similarities 0.9, 0.5, 0.5, confidences
\* 0.1, 0.9, 0.9 and derived_from 0, 0, 10 the scores are 0.65, 0.53, 0.63 and the
\* order is candidate 1, candidate 3, candidate 2.
C10_RankedAndTruncated ==
    ReachedRanking =>
        LET candidates == CandidatesOfCall
            out == result.value
            max_derived ==
                Max2(1, SetMax({0} \cup {candidates[i].derived_from :
                                            i \in 1..Len(candidates)}))
            returned == [i \in 1..Len(out) |-> Unranked(out[i])]
        IN  /\ Len(out) = Min2(call.top_k, Len(candidates))
            /\ \A i \in 1..Len(out) : out[i].rank_score = ClaimedScore(out[i], max_derived)
            /\ \A i \in 1..Len(out) : \A j \in i..Len(out) :
                  FracGeq(out[i].rank_score, out[j].rank_score)
            /\ \A i \in 1..Len(out) :
                  Count(returned, returned[i]) <= Count(candidates, returned[i])
            /\ \A i \in 1..Len(candidates) :
                  Count(returned, candidates[i]) < Count(candidates, candidates[i]) =>
                      FracGeq(out[Len(out)].rank_score,
                              ClaimedScore(candidates[i], max_derived))
            /\ ( /\ Len(candidates) = 3
                 /\ [i \in 1..3 |-> candidates[i].similarity_score] = <<90, 50, 50>>
                 /\ [i \in 1..3 |-> candidates[i].confidence] = <<10, 90, 90>>
                 /\ [i \in 1..3 |-> candidates[i].derived_from] = <<0, 0, 10>>
                 /\ call.top_k >= 3 )
               => /\ returned = <<candidates[1], candidates[3], candidates[2]>>
                  /\ \A i \in 1..3 : out[i].rank_score.den = 10000
                  /\ [i \in 1..3 |-> out[i].rank_score.num] = <<6500, 6300, 5300>>

\* the call of the example: three candidates, top_k at least 3, the second one last
C10_Witness ==
    /\ ReachedRanking
    /\ call.top_k >= 3
    /\ Len(CandidatesOfCall) = 3
    /\ [i \in 1..3 |-> CandidatesOfCall[i].similarity_score] = <<90, 50, 50>>
    /\ [i \in 1..3 |-> CandidatesOfCall[i].confidence] = <<10, 90, 90>>
    /\ [i \in 1..3 |-> CandidatesOfCall[i].derived_from] = <<0, 0, 10>>
    /\ Len(result.value) = 3
    /\ Unranked(result.value[3]) = CandidatesOfCall[2]

\* C11: in the list retrieve_relevant_memory returns, a candidate with similarity_score
\* 0.9 never stands behind a candidate with similarity_score 0.5, and is never cut by
\* top_k while a candidate with similarity_score 0.5 is returned, whatever the
\* confidence and derived_from of the two.
C11_RelevanceDominates ==
    ReachedRanking =>
        LET candidates == CandidatesOfCall
            out == result.value
        IN  /\ \A i \in 1..Len(out) : \A j \in 1..Len(out) :
                  (out[i].similarity_score = 90 /\ out[j].similarity_score = 50) => i < j
            /\ \A i \in 1..Len(candidates) :
                  ( /\ candidates[i].similarity_score = 90
                    /\ \E j \in 1..Len(out) : out[j].similarity_score = 50 )
                  => \E j \in 1..Len(out) : Unranked(out[j]) = candidates[i]

\* query_text of the call made
QueryTextOfCall == strip(Fmt2(strip(call.task), strip(call.goal)))

\* the stores are as the call found them
StoresUntouched ==
    /\ semFile = prev.semFile
    /\ procFile = prev.procFile
    /\ epiFile = prev.epiFile

\* C12: retrieve_relevant_memory returns [] and leaves the three store files as they
\* were when top_k <= 0, when the trimmed "task goal" text is empty, or when embedding
\* the query raises or gives an empty vector; in the first two cases it makes no call to
\* the embeddings API, in the other two only the one for the query; and every item of
\* every list it returns carries a rank_score.
C12_FailClosed ==
    IsRetrieve =>
        /\ (call.top_k <= 0 \/ ~Truthy(QueryTextOfCall)) =>
              /\ result.value = <<>>
              /\ StoresUntouched
              /\ call.calls = <<>>
        /\ ( /\ call.top_k > 0
             /\ Truthy(QueryTextOfCall)
             /\ \/ call.embedder.down
                \/ ApiRaises(QueryTextOfCall)
                \/ ApiVector(QueryTextOfCall) = <<>> ) =>
              /\ result.value = <<>>
              /\ StoresUntouched
              /\ call.calls = <<QueryTextOfCall>>
        /\ \A i \in 1..Len(result.value) : "rank_score" \in DOMAIN result.value[i]

\* the embeddings API raised on the query of a call over stores that hold records
C12_Witness ==
    /\ IsRetrieve
    /\ call.top_k > 0 /\ Truthy(QueryTextOfCall) /\ call.embedder.down
    /\ prev.semFile # <<>> /\ prev.procFile # <<>> /\ prev.epiFile # <<>>
    /\ result.value = <<>>
    /\ call.calls = <<QueryTextOfCall>>
    /\ StoresUntouched

\* the call gathered candidates and every payload it sent was answered with a vector
FullyEmbedded ==
    /\ ReachedRanking
    /\ ~call.embedder.down
    /\ \A i \in 1..Len(call.calls) :
          ~ApiRaises(call.calls[i]) /\ ApiVector(call.calls[i]) # <<>>

\* C13: when a retrieve_relevant_memory call in which every embedding succeeded is
\* followed by another retrieve on the stores as the first left them, the second call
\* sends the embeddings API the query and nothing else: no semantic, procedural or
\* episodic record is embedded a second time.
C13_OneEmbeddingPerRecord ==
    [][ ( /\ FullyEmbedded
          /\ call'.op = "retrieve_relevant_memory"
          /\ call'.top_k > 0
          /\ call'.calls # <<>> )
        => Len(call'.calls) = 1 ]_vars

(***************************************************************************)
(* The semantic and the procedural store under save and load calls, each   *)
(* call recorded. The two stores share no state and no function touches    *)
(* both files, so a behaviour works on one of them.                        *)
(***************************************************************************)
SemanticOps == {"save_semantic_rule", "load_semantic_rules"}
ProceduralOps == {"save_procedural_strategy", "load_procedural_strategies"}

SemSaveCall ==
    /\ procFile = <<>> /\ call.op \notin ProceduralOps
    /\ \E rule_data \in SemInputs : TracedSave(rule_data, LlmNone)

\* load_semantic_rules reads the file and never writes it
SemLoadCall ==
    /\ procFile = <<>> /\ call.op \notin ProceduralOps
    /\ call' = [op |-> "load_semantic_rules"]
    /\ result' = Returned(load_semantic_rules(semFile))
    /\ prev' = semFile
    /\ run' = 0
    /\ UNCHANGED <<semFile, procFile, epiFile, rwVars>>

ProcSaveCall ==
    /\ semFile = <<>> /\ call.op \notin SemanticOps
    /\ \E strategy \in ProcInputs :
          \E file \in {save_procedural_strategy(procFile, strategy)} :
              /\ WithinProcBounds(file)
              /\ procFile' = file
              /\ call' = [op |-> "save_procedural_strategy", strategy |-> strategy]
    /\ result' = Returned(None)
    /\ prev' = procFile
    /\ run' = 0
    /\ UNCHANGED <<semFile, epiFile, rwVars>>

ProcLoadCall ==
    /\ semFile = <<>> /\ call.op \notin SemanticOps
    /\ \E out \in {load_procedural_strategies(procFile)} :
          /\ WithinProcBounds(out.file)
          /\ procFile' = out.file
          /\ result' = Returned(out.value)
    /\ call' = [op |-> "load_procedural_strategies"]
    /\ prev' = procFile
    /\ run' = 0
    /\ UNCHANGED <<semFile, epiFile, rwVars>>

CallNext == SemSaveCall \/ SemLoadCall \/ ProcSaveCall \/ ProcLoadCall

CallSpec == Init /\ [][CallNext]_vars

\* the valid lines of a semantic file, normalized, in file order
ValidRules(file) ==
    LET F[i \in 0..Len(file)] ==
            IF i = 0 THEN <<>>
            ELSE IF _normalize_rule(AsDict(file[i])) # None
                 THEN Append(F[i - 1], _normalize_rule(AsDict(file[i])))
                 ELSE F[i - 1]
    IN  F[Len(file)]

\* C14: load_semantic_rules returns the valid records of the file consolidated in file
\* order (each record merged into the first accepted record it is similar to, at that
\* record's position, and appended otherwise), so no two records it returns are
\* similar, and it leaves the consolidated list as the file's content when the
\* consolidation changed something and the file untouched when it did not.
C14_LoadConsolidates ==
    (call.op = "load_semantic_rules" /\ result.done) =>
        LET records == ValidRules(prev)
            consolidated == _consolidate_with_llm(records, LlmNone).value
        IN  /\ result.value = consolidated
            /\ NoSimilarPair(result.value)
            /\ semFile = IF consolidated # records THEN consolidated ELSE prev

(***************************************************************************)
(* _merge_incoming_with_existing as a function of its arguments: the       *)
(* existing rules are a list _consolidate_with_llm returned, as in         *)
(* save_semantic_rule                                                      *)
(***************************************************************************)
\* an oracle that calls every pair similar and names the canonical rule "k"
LlmAlwaysSimilar ==
    LlmAnswer([json |-> "dict", similar |-> Bool(TRUE), canonical_rule |-> Str(<<"k">>),
               canonical_context |-> NoneV])

IncomingInit ==
    /\ SemInit /\ ProcInit /\ EpiInit /\ RwInit
    /\ call \in {[op |-> "_merge_incoming_with_existing",
                   existing_rules |-> _consolidate_with_llm(X, llm).value,
                   incoming_rule |-> r, llm |-> llm] :
                     X \in SeqsUpTo(ConsRules, MaxList), r \in ConsRules,
                     llm \in {LlmNone, LlmRaise, LlmAlwaysSimilar}}
    /\ result = Pending
    /\ prev = <<>>
    /\ run = 0

IncomingApply ==
    /\ ~result.done
    /\ result' = Returned(_merge_incoming_with_existing(call.existing_rules,
                                                        call.incoming_rule, call.llm).value)
    /\ UNCHANGED <<semFile, procFile, epiFile, call, prev, run, rwVars>>

IncomingSpec == IncomingInit /\ [][IncomingApply]_vars

\* the incoming rule after the existing rules 1..i were offered to it in order, each one
\* judged against the rule merged so far
MergedSoFar(existing_rules, incoming_rule, llm, i) ==
    LET F[k \in 0..i] ==
            IF k = 0 THEN incoming_rule
            ELSE LET dec == _llm_similarity_decision(existing_rules[k], F[k - 1], llm)
                 IN  IF dec.similar
                     THEN _merge_rule(existing_rules[k], F[k - 1],
                                      dec.canonical_rule, dec.canonical_context)
                     ELSE F[k - 1]
    IN  F[i]

\* the existing rules judged equivalent to the rule merged so far
MatchedSlots(existing_rules, incoming_rule, llm) ==
    {i \in 1..Len(existing_rules) :
        _llm_similarity_decision(existing_rules[i],
            MergedSoFar(existing_rules, incoming_rule, llm, i - 1), llm).similar}

\* the existing rules judged equivalent to the incoming rule as it was passed in
SlotsLikeIncoming(existing_rules, incoming_rule, llm) ==
    {i \in 1..Len(existing_rules) :
        _llm_similarity_decision(existing_rules[i], incoming_rule, llm).similar}

\* the records of `rules` at the positions of `keep`, in order
Restrict(rules, keep) ==
    LET F[i \in 0..Len(rules)] ==
            IF i = 0 THEN <<>>
            ELSE IF i \in keep THEN Append(F[i - 1], rules[i]) ELSE F[i - 1]
    IN  F[Len(rules)]

IsMergeIncoming == call.op = "_merge_incoming_with_existing" /\ result.done

\* the list with the matched slots collapsed into `merged` at the first of them
Collapsed(existing_rules, matched, merged) ==
    Restrict(existing_rules, {i \in 1..Len(existing_rules) : i < SetMin(matched)})
    \o <<merged>>
    \o Restrict(existing_rules,
                {i \in 1..Len(existing_rules) : i > SetMin(matched) /\ i \notin matched})

IsProcSave == call.op = "save_procedural_strategy" /\ result.done

\* C16: when the strategy passed to save_procedural_strategy is similar to existing
\* strategies of the file, it is folded into the first of them in file order only: that
\* record is reinforced once, every other existing strategy stays a separate record at
\* its position with its confidence, derived_from and steps unchanged, and the number
\* of records stays the same.
C16_FoldsIntoFirstMatchOnly ==
    (IsProcSave /\ _normalize_strategy(call.strategy) # None) =>
        LET incoming == _normalize_strategy(call.strategy)
            existing == LoadedStrategies(prev)
            hits == {i \in 1..Len(existing) : _is_similar_strategy(existing[i], incoming)}
        IN  hits # {} =>
              /\ Len(procFile) = Len(existing)
              /\ procFile[SetMin(hits)].derived_from = existing[SetMin(hits)].derived_from + 1
              /\ \A j \in (1..Len(existing)) \ {SetMin(hits)} :
                    /\ procFile[j].strategy_name = existing[j].strategy_name
                    /\ procFile[j].confidence = existing[j].confidence
                    /\ procFile[j].derived_from = existing[j].derived_from
                    /\ procFile[j].steps_template = existing[j].steps_template

\* a rule with empty or whitespace text, or a confidence or derived_from that is no number
InvalidRuleData(rule_data) ==
    \/ rule_data.rule.t # "str"
    \/ ~Truthy(strip(rule_data.rule.s))
    \/ rule_data.confidence.t # "num"
    \/ rule_data.derived_from.t # "num"

\* a strategy with an empty name, without a non-empty step, or with a confidence or
\* derived_from that is no number
InvalidStrategyData(strategy) ==
    \/ strategy.strategy_name.t # "str"
    \/ ~Truthy(strip(strategy.strategy_name.s))
    \/ strategy.steps_template.t # "list"
    \/ \A i \in 1..Len(strategy.steps_template.items) :
          \/ strategy.steps_template.items[i].t # "str"
          \/ ~Truthy(strip(strategy.steps_template.items[i].s))
    \/ strategy.confidence.t # "num"
    \/ strategy.derived_from.t # "num"

\* C17: save_semantic_rule with an empty or whitespace rule text or an uncoercible
\* confidence or derived_from, and save_procedural_strategy with an empty name, no
\* non-empty step or an uncoercible confidence or derived_from, return without raising
\* and leave the store file exactly as it was: nothing is consolidated, rewritten or
\* partially persisted.
C17_InvalidInputIsNoOp ==
    /\ (call.op = "save_semantic_rule" /\ InvalidRuleData(call.rule_data)) =>
          /\ result.done /\ ~result.raised
          /\ semFile = prev
    /\ (call.op = "save_procedural_strategy" /\ InvalidStrategyData(call.strategy)) =>
          /\ result.done /\ ~result.raised
          /\ procFile = prev

\* an invalid strategy was passed while the file held strategies a load would have
\* consolidated and rewritten
C17_Witness ==
    /\ call.op = "save_procedural_strategy" /\ InvalidStrategyData(call.strategy)
    /\ result.done
    /\ load_procedural_strategies(prev).file # prev
    /\ procFile = prev

\* the save just made was of a valid rule similar to no rule of the file before it
SavedNewRule ==
    /\ call.op = "save_semantic_rule" /\ result.done
    /\ ~InvalidRuleData(call.rule_data)
    /\ \A i \in 1..Len(ValidRules(prev)) :
          ~_is_similar_rule(ValidRules(prev)[i], _normalize_rule(call.rule_data))

\* the save just made was of a valid strategy similar to no strategy of the file before
SavedNewStrategy ==
    /\ IsProcSave
    /\ ~InvalidStrategyData(call.strategy)
    /\ \A i \in 1..Len(LoadedStrategies(prev)) :
          ~_is_similar_strategy(LoadedStrategies(prev)[i], _normalize_strategy(call.strategy))

\* C18: a load_semantic_rules call that follows a save_semantic_rule (llm=None) of a
\* valid rule similar to no rule of the store returns the records the store held before
\* the save, unchanged and in order, followed by a record equal to the normalized
\* input; and so does load_procedural_strategies after save_procedural_strategy.
C18_SaveLoadRoundTrip ==
    [][ /\ (SavedNewRule /\ call'.op = "load_semantic_rules") =>
              result'.value = Append(ValidRules(prev), _normalize_rule(call.rule_data))
        /\ (SavedNewStrategy /\ call'.op = "load_procedural_strategies") =>
              result'.value = Append(LoadedStrategies(prev),
                                     _normalize_strategy(call.strategy)) ]_vars

\* a record without its embedding field
WithoutEmbedding(entry) == [k \in (DOMAIN entry) \ {"embedding"} |-> entry[k]]

\* the valid records of an episodic file, in file order, without their embeddings
EpisodesOf(file) ==
    [i \in 1..Len(_load_episodic_records(file)) |->
        WithoutEmbedding(_load_episodic_records(file)[i])]

\* C19: a save_experience call that returns appends exactly one line, the record, to the
\* episodic file and touches nothing before it; one that raises and every
\* retrieve_relevant_memory call leave the valid records of the file, embeddings aside,
\* as they were: so the valid records are always the initial ones followed by the
\* saved ones in save order, none deleted, reordered, merged or altered.
C19_EpisodicAppendOnly ==
    [][ IF call'.op = "save_experience" /\ ~result'.raised
        THEN /\ epiFile' = Append(epiFile, ModelDump(call'.exp))
             /\ EpisodesOf(epiFile') = Append(EpisodesOf(epiFile), ModelDump(call'.exp))
        ELSE EpisodesOf(epiFile') = EpisodesOf(epiFile) ]_vars

\* a retrieve rewrote an episodic file of two saved records to store an embedding
C19_Witness ==
    /\ IsRetrieve
    /\ Len(prev.epiFile) = 2
    /\ \A i \in 1..2 : "embedding" \notin DOMAIN prev.epiFile[i]
    /\ epiFile # prev.epiFile
    /\ \E i \in 1..Len(epiFile) : "embedding" \in DOMAIN epiFile[i]
    /\ EpisodesOf(epiFile) = EpisodesOf(prev.epiFile)
    /\ Len(EpisodesOf(epiFile)) = 2

\* C20: after a retrieve_relevant_memory call the valid records of each of the three
\* store files are those the call found, in number, order and every field but the
\* embedding: no confidence, derived_from, text or steps changes and no two records
\* are merged.
C20_RetrieveKeepsRecords ==
    IsRetrieve =>
        /\ ValidRules(semFile) = ValidRules(prev.semFile)
        /\ LoadedStrategies(procFile) = LoadedStrategies(prev.procFile)
        /\ EpisodesOf(epiFile) = EpisodesOf(prev.epiFile)

(***************************************************************************)
(* The two rule stores under save, load and retrieve calls, each call      *)
(* recorded. load_semantic_rules and retrieve_relevant_memory read         *)
(* semantic.jsonl and procedural.jsonl independently of each other, so a   *)
(* behaviour works on one of them.                                         *)
(***************************************************************************)
RetrieveCall ==
    /\ \E embedder \in Embedders :
          \E out \in {retrieve_relevant_memory(semFile, procFile, epiFile,
                                               <<"q">>, EmptyStr, 1, embedder)} :
              /\ WithinProcBounds(out.procFile)
              /\ semFile' = out.semFile
              /\ procFile' = out.procFile
              /\ epiFile' = out.epiFile
              /\ call' = [op |-> "retrieve_relevant_memory", task |-> <<"q">>,
                          goal |-> EmptyStr, top_k |-> 1, embedder |-> embedder,
                          calls |-> out.calls]
              /\ result' = Returned(out.value)
    /\ prev' = [semFile |-> semFile, procFile |-> procFile, epiFile |-> epiFile]
    /\ run' = 0
    /\ UNCHANGED rwVars

StoreSpec == Init /\ [][CallNext \/ RetrieveCall]_vars

\* a persisted rule as the claim wants it
WellFormedRule(r) ==
    /\ Truthy(strip(r.rule))
    /\ r.confidence \in 0..ConfOne
    /\ r.derived_from \in Nat

\* a persisted strategy as the claim wants it
WellFormedStrategy(r) ==
    /\ Truthy(strip(r.strategy_name))
    /\ \E i \in 1..Len(r.steps_template) : Truthy(strip(r.steps_template[i]))
    /\ r.confidence \in 0..ConfOne
    /\ r.derived_from \in Nat

\* C21: after any sequence of save, load and retrieve calls, with valid and invalid
\* inputs, every record of semantic.jsonl has a non-empty rule text, every record of
\* procedural.jsonl a non-empty strategy name and at least one non-empty step, and
\* every record of both a confidence in [0, 1] and an integer derived_from >= 0.
C21_PersistedRecordsWellFormed ==
    /\ \A i \in 1..Len(semFile) : WellFormedRule(semFile[i])
    /\ \A i \in 1..Len(procFile) : WellFormedStrategy(procFile[i])

\* a retrieve has just stored the embedding of a rule saved with confidence 1.3 and
\* merged since
C21_Witness ==
    /\ call.op = "retrieve_relevant_memory"
    /\ \E i \in 1..Len(semFile) :
          /\ "embedding" \in DOMAIN semFile[i]
          /\ semFile[i].confidence = ConfOne
          /\ semFile[i].derived_from > 0

(***************************************************************************)
(* The semantic store under save_semantic_rule calls with an oracle that   *)
(* answers                                                                 *)
(***************************************************************************)
\* what llm.generate returns: text that is not JSON; "similar" as the string " YES", as
\* the number 1, as true with blank canonical texts, as true with canonical texts, and
\* as false
OracleLlms ==
    { LlmAnswer([json |-> "invalid", similar |-> NoneV,
                 canonical_rule |-> NoneV, canonical_context |-> NoneV]),
      LlmAnswer([json |-> "dict", similar |-> Str(<<"", "YES">>),
                 canonical_rule |-> NoneV, canonical_context |-> NoneV]),
      LlmAnswer([json |-> "dict", similar |-> Num(1),
                 canonical_rule |-> Str(<<"k">>), canonical_context |-> NoneV]),
      LlmAnswer([json |-> "dict", similar |-> Bool(TRUE),
                 canonical_rule |-> Str(<<"", "">>), canonical_context |-> Str(EmptyStr)]),
      LlmAnswer([json |-> "dict", similar |-> Bool(TRUE),
                 canonical_rule |-> Str(<<"", "k", "">>), canonical_context |-> Str(<<"w">>)]),
      LlmAnswer([json |-> "dict", similar |-> Bool(FALSE),
                 canonical_rule |-> Str(<<"k">>), canonical_context |-> Str(<<"w">>)]) }

\* two rules with token overlap 0.5 and one with overlap 0.75 and 0.67 of them
OracleInputs ==
    { RuleDict(Str(<<"a", "c", "f", "g">>), NoneV, Num(50), Num(0)),
      RuleDict(Str(<<"c">>), Str(<<"d", "f">>), Num(50), Num(1)),
      RuleDict(Str(<<"a", "c", "f">>), Str(EmptyStr), Num(95), Num(0)) }

OracleSave == \E rule_data \in OracleInputs, llm \in OracleLlms : TracedSave(rule_data, llm)

OracleSpec == Init /\ [][OracleSave]_vars

\* the oracle answered, and its answer is not JSON, not an object, or has a "similar"
\* that is not a boolean
UnusableAnswer(llm) ==
    /\ llm.present /\ ~llm.raises
    /\ \/ llm.response.json # "dict"
       \/ llm.response.similar.t # "bool"

\* C22: when the oracle's answer is unparsable or its "similar" is not a boolean, as the
\* string "yes" is, the judgment is the token-overlap heuristic's: a save under such an
\* oracle leaves the file that the same save without an oracle leaves, so two rules
\* with overlap < 0.6 are not merged on the strength of the answer.
C22_NonBooleanAnswerFallsBack ==
    (IsSave /\ UnusableAnswer(call.llm))
        => semFile = save_semantic_rule(prev, call.rule_data, LlmNone).file

(***************************************************************************)
(* retrieval.py works on the characters of a text                          *)
(***************************************************************************)
\* the characters of one chunk, over the vocabulary of the model
Chars(w) ==
    CASE w = "" -> <<>>
      [] w = "fix" -> <<"f", "i", "x">>
      [] w = "Fix" -> <<"F", "i", "x">>
      [] w = "it" -> <<"i", "t">>
      [] w = "it!" -> <<"i", "t", "!">>
      [] w = "o-k" -> <<"o", "-", "k">>
      [] w = "run" -> <<"r", "u", "n">>
      [] w = "09" -> <<"0", "9">>
      [] w = "10" -> <<"1", "0">>
      [] w = "11" -> <<"1", "1">>
      [] OTHER -> <<w>>

\* the characters of a str: its chunks with a space between them
RECURSIVE Spell(_)
Spell(s) ==
    IF Len(s) = 1 THEN Chars(s[1]) ELSE Chars(s[1]) \o <<" ">> \o Spell(Tail(s))

\* ord() of a character of the model
Ord(c) ==
    CASE c = " " -> 32
      [] c = "!" -> 33
      [] c = "0" -> 48
      [] c = "1" -> 49
      [] c = "9" -> 57
      [] c = "F" -> 70
      [] c = "f" -> 102
      [] c = "i" -> 105
      [] c = "n" -> 110
      [] c = "r" -> 114
      [] c = "t" -> 116
      [] c = "u" -> 117
      [] c = "x" -> 120
      [] c = "-" -> 45
      [] c = "g" -> 103
      [] c = "o" -> 111
      [] c = "k" -> 107
      [] OTHER -> 104

\* left > right for two str
RECURSIVE StrGreater(_, _)
StrGreater(left, right) ==
    IF left = <<>> THEN FALSE
    ELSE IF right = <<>> THEN TRUE
    ELSE IF Ord(left[1]) # Ord(right[1]) THEN Ord(left[1]) > Ord(right[1])
    ELSE StrGreater(Tail(left), Tail(right))

\* _WORD_PATTERN.findall(text.lower()): the maximal runs of [a-z0-9], in order; token
\* is the run being read
RECURSIVE WordFindall(_, _)
WordFindall(chars, token) ==
    LET Lower(c) == IF c = "F" THEN "f" ELSE c
        InClass(c) == Ord(c) \in (48..57) \cup (97..122)
        Done == IF token = <<>> THEN <<>> ELSE <<token>>
    IN  IF chars = <<>> THEN Done
        ELSE IF InClass(Lower(chars[1]))
             THEN WordFindall(Tail(chars), Append(token, Lower(chars[1])))
             ELSE Done \o WordFindall(Tail(chars), <<>>)

\* " ".join(tokens)
RECURSIVE JoinTokens(_)
JoinTokens(tokens) ==
    IF tokens = <<>> THEN <<>>
    ELSE IF Len(tokens) = 1 THEN tokens[1]
    ELSE tokens[1] \o <<" ">> \o JoinTokens(Tail(tokens))

\* text given by its characters
_normalize_text(text) == JoinTokens(WordFindall(text, <<>>))

_keywords(text) ==
    LET Long(tokens) == {tokens[i] : i \in {j \in 1..Len(tokens) : Len(tokens[j]) > 2}}
    IN  Long(WordFindall(text, <<>>))

\* needle in haystack, for two str
Contains(needle, haystack) ==
    \E i \in 0..(Len(haystack) - Len(needle)) :
        SubSeq(haystack, i + 1, i + Len(needle)) = needle

\* the score, a float with an integer value
_similarity_score(exp, task, goal) ==
    LET Part(query_norm, exp_norm) ==
            IF query_norm # <<>> /\ query_norm = exp_norm THEN 4
            ELSE IF query_norm # <<>>
                    /\ (Contains(query_norm, exp_norm) \/ Contains(exp_norm, query_norm))
                 THEN 2
                 ELSE 0
        Shared(query_terms, exp_terms) == Cardinality(query_terms \cap exp_terms)
    IN  Part(_normalize_text(Spell(task)), _normalize_text(Spell(exp.intent_task.s)))
        + Part(_normalize_text(Spell(goal)), _normalize_text(Spell(exp.intent_goal.s)))
        + Shared(_keywords(Spell(task) \o <<" ">> \o Spell(goal)),
                 _keywords(Spell(exp.intent_task.s) \o <<" ">> \o Spell(exp.intent_goal.s)
                           \o <<" ">> \o Spell(exp.result_summary.s)))

\* the lines of the file that validate, as MissionExperience objects, in file order
load_all_experiences(file) ==
    LET Parsed(line) == IF IsRaw(line) THEN line.value ELSE line
        F[i \in 0..Len(file)] ==
            IF i = 0 THEN <<>>
            ELSE IF ~Skipped(file[i]) /\ ModelValidate(Parsed(file[i]))
                 THEN Append(F[i - 1], ModelDump(Parsed(file[i])))
                 ELSE F[i - 1]
    IN  F[Len(file)]

\* a sort key that is the score alone
SortKeyGreater_score_only(left, right) == left.score > right.score

\* the sort key (score, success, timestamp) of left is greater than that of right
SortKeyGreater(left, right) ==
    \/ left.score > right.score
    \/ /\ left.score = right.score
       /\ \/ left.exp.success.b /\ ~right.exp.success.b
          \/ /\ left.exp.success.b = right.exp.success.b
             /\ StrGreater(Spell(left.exp.timestamp.s), Spell(right.exp.timestamp.s))

find_similar_experiences(file, task, goal, limit) ==
    LET Scored(all) ==
            LET F[i \in 0..Len(all)] ==
                    IF i = 0 THEN <<>>
                    ELSE IF _similarity_score(all[i], task, goal) <= 0 THEN F[i - 1]
                    ELSE Append(F[i - 1],
                                [score |-> _similarity_score(all[i], task, goal),
                                 exp |-> all[i]])
            IN  F[Len(all)]
        \* scored.sort(key=..., reverse=True) is stable: an item goes behind the items
        \* of a greater key and behind the earlier items of an equal key
        Place(scored, i) ==
            1 + Cardinality({j \in 1..Len(scored) :
                                \/ SortKeyGreater(scored[j], scored[i])
                                \/ ~SortKeyGreater(scored[i], scored[j]) /\ j < i})
        Sorted(scored) ==
            [r \in 1..Len(scored) |->
                scored[CHOOSE i \in 1..Len(scored) : Place(scored, i) = r]]
        Cut(sorted) == [r \in 1..Min2(limit, Len(sorted)) |-> sorted[r].exp]
    IN  IF limit <= 0 THEN <<>>
        ELSE Cut(Sorted(Scored(load_all_experiences(file))))

(***************************************************************************)
(* find_similar_experiences over episodic files                            *)
(***************************************************************************)
MaxLines == 4

\* three records of the task "fix it" that differ in success and timestamp, one of
\* the task "Fix", one of the task "run", and a line that does not validate
FindLines ==
    { [Experience(Str(<<"fix", "it">>), Str(EmptyStr), Num(1), Bool(TRUE))
          EXCEPT !.timestamp = Str(<<"10">>)],
      [Experience(Str(<<"fix", "it">>), Str(EmptyStr), Num(1), Bool(TRUE))
          EXCEPT !.timestamp = Str(<<"09">>)],
      [Experience(Str(<<"fix", "it">>), Str(EmptyStr), Num(1), Bool(FALSE))
          EXCEPT !.timestamp = Str(<<"11">>)],
      [Experience(Str(<<"Fix">>), Str(<<"o", "k">>), Num(1), Bool(TRUE))
          EXCEPT !.timestamp = Str(<<"11">>)],
      [Experience(Str(<<"run">>), Str(<<"g">>), Num(2), Bool(TRUE))
          EXCEPT !.timestamp = Str(<<"11">>)],
      Experience(Str(<<"fix", "it">>), Str(EmptyStr), Num(1), NoneV) }

FindInit ==
    /\ epiFile \in SeqsUpTo(FindLines, MaxLines)
    /\ SemInit /\ ProcInit /\ CallInit /\ RwInit

FindSimilar ==
    /\ call = NoCall
    /\ \E task \in {<<"", "Fix", "it!">>, <<"x">>}, goal \in {EmptyStr, <<"o-k">>},
          limit \in {-1, 0, 2, MaxLines + 1} :
          /\ call' = [op |-> "find_similar_experiences", task |-> task, goal |-> goal,
                      limit |-> limit]
          /\ result' = Returned(find_similar_experiences(epiFile, task, goal, limit))
    /\ UNCHANGED <<semFile, procFile, epiFile, prev, run, rwVars>>

FindSpec == FindInit /\ [][FindSimilar]_vars

IsFind == call.op = "find_similar_experiences" /\ result.done

\* the score of a record under the query of the call made
ScoreOfCall(exp) == _similarity_score(exp, call.task, call.goal)

\* C23: find_similar_experiences returns only records that score > 0, at most `limit` of
\* them and none when limit <= 0, ordered by score descending, then success=true before
\* success=false, then timestamp descending; the records returned are valid records of
\* the file, and each scores at least as high as every valid record left out.
C23_FindSimilarRankedAndCut ==
    IsFind =>
        LET returned == result.value
            valid == load_all_experiences(epiFile)
        IN  /\ \A i \in 1..Len(returned) : ScoreOfCall(returned[i]) > 0
            /\ Len(returned) <= Max2(0, call.limit)
            /\ \A i \in 1..Len(returned) : \A j \in 1..Len(returned) :
                  i < j =>
                     \/ ScoreOfCall(returned[i]) > ScoreOfCall(returned[j])
                     \/ /\ ScoreOfCall(returned[i]) = ScoreOfCall(returned[j])
                        /\ \/ returned[i].success.b /\ ~returned[j].success.b
                           \/ /\ returned[i].success.b = returned[j].success.b
                              /\ ~StrGreater(Spell(returned[j].timestamp.s),
                                             Spell(returned[i].timestamp.s))
            /\ \A i \in 1..Len(returned) : Count(returned, returned[i]) <= Count(valid, returned[i])
            /\ \A k \in 1..Len(valid) :
                  Count(returned, valid[k]) < Count(valid, valid[k])
                      => \A i \in 1..Len(returned) :
                             ScoreOfCall(returned[i]) >= ScoreOfCall(valid[k])

\* a call with limit 2 on a file of four lines: two successes of equal score come back,
\* the later one first, a failure of the same score recorded before them is left out,
\* and so is a record that scores 0
C23_Witness ==
    /\ IsFind /\ call.limit = 2 /\ Len(epiFile) = MaxLines
    /\ Len(result.value) = 2
    /\ ScoreOfCall(result.value[1]) = ScoreOfCall(result.value[2])
    /\ StrGreater(Spell(result.value[1].timestamp.s), Spell(result.value[2].timestamp.s))
    /\ ModelValidate(epiFile[1]) /\ ~epiFile[1].success.b
    /\ ScoreOfCall(epiFile[1]) = ScoreOfCall(result.value[1])
    /\ \E k \in 1..Len(epiFile) : ModelValidate(epiFile[k]) /\ ScoreOfCall(epiFile[k]) = 0

(***************************************************************************)
(* semantic_extractor.py, procedural_extractor.py                          *)
(*                                                                         *)
(* What llm.generate returns is [fence, json, rules, strategies, items]:   *)
(* the text is bare ("none"), inside a code fence ("fenced") or a fence    *)
(* after other text ("prefixed"); without the markup it is not JSON        *)
(* ("invalid"), an object ("dict", with what its keys "rules" and          *)
(* "strategies" hold), a list ("list", with its items) or another JSON     *)
(* value ("other"). An item is a tagged value, a dict being                *)
(* [t |-> "dict", ...] with a tagged value per key and NoneV for a key     *)
(* that is absent. Every text of the model is shorter than 120 characters, *)
(* so the truncation of a rule text or a strategy name is never taken.     *)
(***************************************************************************)
Response(fence, json, rules, strategies, items) ==
    [fence |-> fence, json |-> json, rules |-> rules, strategies |-> strategies,
     items |-> items]

\* the text handed to json.loads: a fence is removed only when the text starts with it
_extract_json_text(text) ==
    IF text.fence = "fenced" THEN [text EXCEPT !.fence = "none"] ELSE text

\* json.loads(...) raises
LoadsRaises(text) == text.fence # "none" \/ text.json = "invalid"

\* semantic_extractor._normalize_rule
extractor_normalize_rule(rule_data, derived_from_default) ==
    IF rule_data.t # "dict" THEN None
    ELSE IF rule_data.rule.t # "str" \/ ~Truthy(strip(rule_data.rule.s)) THEN None
    ELSE IF rule_data.confidence.t # "num" THEN None
    ELSE [rule |-> strip(rule_data.rule.s),
          context |-> IF rule_data.context.t = "str"
                      THEN strip(rule_data.context.s) ELSE EmptyStr,
          confidence |-> Max2(0, Min2(ConfOne, rule_data.confidence.v)),
          derived_from |-> IF rule_data.derived_from.t = "num"
                           THEN rule_data.derived_from.v ELSE derived_from_default]

\* procedural_extractor._normalize_strategy
extractor_normalize_strategy(strategy_data, derived_from_default) ==
    IF strategy_data.t # "dict" THEN None
    ELSE IF strategy_data.strategy_name.t # "str"
            \/ ~Truthy(strip(strategy_data.strategy_name.s)) THEN None
    ELSE IF strategy_data.steps_template.t # "list" THEN None
    ELSE IF NormalizedSteps(strategy_data.steps_template.items) = <<>> THEN None
    ELSE IF strategy_data.confidence.t # "num" THEN None
    ELSE [strategy_name |-> strip(strategy_data.strategy_name.s),
          applicable_context |->
              IF strategy_data.applicable_context.t = "str"
              THEN strip(strategy_data.applicable_context.s) ELSE EmptyStr,
          steps_template |-> NormalizedSteps(strategy_data.steps_template.items),
          confidence |-> Max2(0, Min2(ConfOne, strategy_data.confidence.v)),
          derived_from |-> IF strategy_data.derived_from.t = "num"
                           THEN strategy_data.derived_from.v ELSE derived_from_default]

\* extract_semantic_rules without the try/except around llm.generate and json.loads
extract_semantic_rules_uncaught(mission_experience, llm) ==
    LET Normalized(raw_rules) ==
            LET F[i \in 0..Len(raw_rules)] ==
                    IF i = 0 THEN <<>>
                    ELSE IF extractor_normalize_rule(raw_rules[i],
                                mission_experience.attempts.v) = None
                         THEN F[i - 1]
                         ELSE Append(F[i - 1],
                                     extractor_normalize_rule(raw_rules[i],
                                         mission_experience.attempts.v))
            IN  F[Len(raw_rules)]
        Parsed(parsed) ==
            IF parsed.json = "dict" /\ parsed.rules.t = "list"
            THEN Normalized(parsed.rules.items)
            ELSE IF parsed.json = "list" THEN Normalized(parsed.items)
            ELSE <<>>
        Loaded(text) ==
            IF LoadsRaises(text) THEN [value |-> <<>>, raised |-> TRUE, calls |-> 1]
            ELSE [value |-> Parsed(text), raised |-> FALSE, calls |-> 1]
    IN  IF llm.raises THEN [value |-> <<>>, raised |-> TRUE, calls |-> 1]
        ELSE Loaded(_extract_json_text(llm.response))

\* outcome: [value |-> the list returned, raised, calls |-> llm.generate calls made]
extract_semantic_rules(mission_experience, llm) ==
    LET Normalized(raw_rules) ==
            LET F[i \in 0..Len(raw_rules)] ==
                    IF i = 0 THEN <<>>
                    ELSE IF extractor_normalize_rule(raw_rules[i],
                                mission_experience.attempts.v) = None
                         THEN F[i - 1]
                         ELSE Append(F[i - 1],
                                     extractor_normalize_rule(raw_rules[i],
                                         mission_experience.attempts.v))
            IN  F[Len(raw_rules)]
        Parsed(parsed) ==
            IF parsed.json = "dict" /\ parsed.rules.t = "list"
            THEN Normalized(parsed.rules.items)
            ELSE IF parsed.json = "list" THEN Normalized(parsed.items)
            ELSE <<>>
        Loaded(text) ==
            IF LoadsRaises(text) THEN [value |-> <<>>, raised |-> FALSE, calls |-> 1]
            ELSE [value |-> Parsed(text), raised |-> FALSE, calls |-> 1]
    IN  IF llm.raises THEN [value |-> <<>>, raised |-> FALSE, calls |-> 1]
        ELSE Loaded(_extract_json_text(llm.response))

\* extract_procedural_strategies without its first two lines
extract_procedural_strategies_unguarded(mission_experience, llm) ==
    LET Normalized(raw_strategies) ==
            LET F[i \in 0..Len(raw_strategies)] ==
                    IF i = 0 THEN <<>>
                    ELSE IF extractor_normalize_strategy(raw_strategies[i],
                                mission_experience.attempts.v) = None
                         THEN F[i - 1]
                         ELSE Append(F[i - 1],
                                     extractor_normalize_strategy(raw_strategies[i],
                                         mission_experience.attempts.v))
            IN  F[Len(raw_strategies)]
        Parsed(parsed) ==
            IF parsed.json = "dict" /\ parsed.strategies.t = "list"
            THEN Normalized(parsed.strategies.items)
            ELSE IF parsed.json = "list" THEN Normalized(parsed.items)
            ELSE <<>>
        Loaded(text) ==
            IF LoadsRaises(text) THEN [value |-> <<>>, raised |-> FALSE, calls |-> 1]
            ELSE [value |-> Parsed(text), raised |-> FALSE, calls |-> 1]
    IN  IF llm.raises THEN [value |-> <<>>, raised |-> FALSE, calls |-> 1]
        ELSE Loaded(_extract_json_text(llm.response))

\* outcome: [value |-> the list returned, raised, calls |-> llm.generate calls made]
extract_procedural_strategies(mission_experience, llm) ==
    LET Normalized(raw_strategies) ==
            LET F[i \in 0..Len(raw_strategies)] ==
                    IF i = 0 THEN <<>>
                    ELSE IF extractor_normalize_strategy(raw_strategies[i],
                                mission_experience.attempts.v) = None
                         THEN F[i - 1]
                         ELSE Append(F[i - 1],
                                     extractor_normalize_strategy(raw_strategies[i],
                                         mission_experience.attempts.v))
            IN  F[Len(raw_strategies)]
        Parsed(parsed) ==
            IF parsed.json = "dict" /\ parsed.strategies.t = "list"
            THEN Normalized(parsed.strategies.items)
            ELSE IF parsed.json = "list" THEN Normalized(parsed.items)
            ELSE <<>>
        Loaded(text) ==
            IF LoadsRaises(text) THEN [value |-> <<>>, raised |-> FALSE, calls |-> 1]
            ELSE [value |-> Parsed(text), raised |-> FALSE, calls |-> 1]
    IN  IF ~mission_experience.success.b
        THEN [value |-> <<>>, raised |-> FALSE, calls |-> 0]
        ELSE IF llm.raises THEN [value |-> <<>>, raised |-> FALSE, calls |-> 1]
        ELSE Loaded(_extract_json_text(llm.response))

(***************************************************************************)
(* main.py: the end of a mission, and the extractors called on their own   *)
(***************************************************************************)
MAX_MISSION_ATTEMPTS == 5

\* an item of the "rules" array, and one of the "strategies" array
RuleItem(rule, context, confidence, derived_from) ==
    [t |-> "dict", rule |-> rule, context |-> context, strategy_name |-> NoneV,
     applicable_context |-> NoneV, steps_template |-> NoneV,
     confidence |-> confidence, derived_from |-> derived_from]

StrategyItem(strategy_name, applicable_context, steps_template, confidence, derived_from) ==
    [t |-> "dict", rule |-> NoneV, context |-> NoneV, strategy_name |-> strategy_name,
     applicable_context |-> applicable_context, steps_template |-> steps_template,
     confidence |-> confidence, derived_from |-> derived_from]

\* the arrays an answer holds: among the rules a string, a rule without confidence and
\* two that normalize; among the strategies one whose steps are a string, a null and
\* one that normalizes
SomeRules ==
    << RuleItem(Str(<<"", "a", "c", "f", "g">>), NoneV, Num(130), NoneV),
       Str(<<"a">>),
       RuleItem(Str(<<"c">>), Str(<<"d", "f">>), NoneV, Num(1)),
       RuleItem(Str(<<"c">>), Str(<<"d", "f">>), Num(50), Num(-1)) >>

SomeStrategies ==
    << StrategyItem(Str(<<"a">>), NoneV, Str(<<"b">>), Num(50), Num(0)),
       NoneV,
       StrategyItem(Str(<<"a", "">>), Str(EmptyStr), List(<<Str(<<"b">>), NoneV>>),
                    Num(50), NoneV) >>

\* the oracle of an extraction: it raises, or answers text that is not JSON, a JSON
\* number, an object whose arrays are strings, an object with the two arrays inside a
\* code fence, the same after other text, or a bare list
ExtractLlms ==
    { LlmRaise,
      LlmAnswer(Response("none", "invalid", NoneV, NoneV, <<>>)),
      LlmAnswer(Response("none", "other", NoneV, NoneV, <<>>)),
      LlmAnswer(Response("none", "dict", Str(<<"a">>), Str(<<"a">>), <<>>)),
      LlmAnswer(Response("fenced", "dict", List(SomeRules), List(SomeStrategies), <<>>)),
      LlmAnswer(Response("prefixed", "dict", List(SomeRules), List(SomeStrategies), <<>>)),
      LlmAnswer(Response("none", "list", NoneV, NoneV,
                         <<SomeRules[4], SomeStrategies[2], SomeStrategies[3]>>)) }

\* an extractor called on a mission record
ExtractCall ==
    /\ call = NoCall
    /\ \E success \in BOOLEAN, attempts \in {1, MAX_MISSION_ATTEMPTS}, llm \in ExtractLlms,
          op \in {"extract_semantic_rules", "extract_procedural_strategies"} :
          \E exp \in {Experience(Str(<<"n">>), Str(<<"g">>), Num(attempts), Bool(success))} :
             \E out \in {IF op = "extract_semantic_rules"
                         THEN extract_semantic_rules(exp, llm)
                         ELSE extract_procedural_strategies(exp, llm)} :
                 /\ call' = [op |-> op, mission_experience |-> exp, llm |-> llm]
                 /\ result' = [done |-> TRUE, raised |-> out.raised, value |-> out.value,
                               calls |-> out.calls]
    /\ UNCHANGED <<semFile, procFile, epiFile, prev, run, rwVars>>

\* main() up to the attempt loop: the three loads, of which load_procedural_strategies
\* may rewrite its file. `call` holds main's frame: where it stands, its locals, and the
\* store functions it has called.
MainBegin ==
    /\ \/ call = NoCall
       \/ call.op = "main" /\ call.pc = "done"
    /\ Len(epiFile) < MaxEpisodes
    /\ procFile' = load_procedural_strategies(procFile).file
    /\ call' = [op |-> "main", pc |-> "attempts", mission_accomplished |-> FALSE,
                experience |-> None, extracted |-> <<>>,
                called |-> <<"load_semantic_rules", "load_procedural_strategies">>]
    /\ result' = Pending
    /\ UNCHANGED <<semFile, epiFile, prev, run, rwVars>>

\* the attempt loop ends accomplished after 1..MAX_MISSION_ATTEMPTS attempts, or not
\* accomplished after all of them; the experience is built and saved
MainAttempts ==
    /\ call.op = "main" /\ call.pc = "attempts"
    /\ \E mission_accomplished \in BOOLEAN, attempts_used \in {1, MAX_MISSION_ATTEMPTS} :
          /\ ~mission_accomplished => attempts_used = MAX_MISSION_ATTEMPTS
          /\ \E experience \in {Experience(Str(<<"n">>), Str(<<"g">>), Num(attempts_used),
                                           Bool(mission_accomplished))} :
                /\ epiFile' = save_experience(epiFile, experience).file
                /\ call' = [call EXCEPT !.pc = "extract_semantic_rules",
                                        !.mission_accomplished = mission_accomplished,
                                        !.experience = experience,
                                        !.called = Append(@, "save_experience")]
    /\ UNCHANGED <<semFile, procFile, result, prev, run, rwVars>>

\* extracted_rules = extract_semantic_rules(experience, llm)
MainExtractRules ==
    /\ call.op = "main" /\ call.pc = "extract_semantic_rules"
    /\ \E llm \in ExtractLlms :
          \E out \in {extract_semantic_rules(call.experience, llm)} :
              call' = [call EXCEPT !.pc = IF out.raised THEN "raised" ELSE "save_semantic_rule",
                                   !.extracted = out.value,
                                   !.called = Append(@, "extract_semantic_rules")]
    /\ UNCHANGED <<semFile, procFile, epiFile, result, prev, run, rwVars>>

\* one iteration of: for rule_data in extracted_rules: save_semantic_rule(rule_data, llm)
MainSaveRule ==
    /\ call.op = "main" /\ call.pc = "save_semantic_rule" /\ call.extracted # <<>>
    /\ \E llm \in {LlmRaise, LlmAlwaysSimilar} :
          semFile' = save_semantic_rule(semFile, AsDict(Head(call.extracted)), llm).file
    /\ call' = [call EXCEPT !.extracted = Tail(@),
                            !.called = Append(@, "save_semantic_rule")]
    /\ UNCHANGED <<procFile, epiFile, result, prev, run, rwVars>>

\* if mission_accomplished: extracted_strategies = extract_procedural_strategies(...)
MainExtractStrategies ==
    /\ call.op = "main" /\ call.pc = "save_semantic_rule" /\ call.extracted = <<>>
    /\ IF ~call.mission_accomplished
       THEN call' = [call EXCEPT !.pc = "done"]
       ELSE \E llm \in ExtractLlms :
               \E out \in {extract_procedural_strategies(call.experience, llm)} :
                   call' = [call EXCEPT
                               !.pc = IF out.raised THEN "raised"
                                      ELSE "save_procedural_strategy",
                               !.extracted = out.value,
                               !.called = Append(@, "extract_procedural_strategies")]
    /\ UNCHANGED <<semFile, procFile, epiFile, result, prev, run, rwVars>>

\* one iteration of: for strategy_data in extracted_strategies: save_procedural_strategy(...)
MainSaveStrategy ==
    /\ call.op = "main" /\ call.pc = "save_procedural_strategy" /\ call.extracted # <<>>
    /\ procFile' = save_procedural_strategy(procFile, AsStrategyDict(Head(call.extracted)))
    /\ call' = [call EXCEPT !.extracted = Tail(@),
                            !.called = Append(@, "save_procedural_strategy")]
    /\ UNCHANGED <<semFile, epiFile, result, prev, run, rwVars>>

\* main returns
MainReturn ==
    /\ call.op = "main" /\ call.pc = "save_procedural_strategy" /\ call.extracted = <<>>
    /\ call' = [call EXCEPT !.pc = "done"]
    /\ UNCHANGED <<semFile, procFile, epiFile, result, prev, run, rwVars>>

MissionNext ==
    \/ ExtractCall
    \/ MainBegin \/ MainAttempts \/ MainExtractRules \/ MainSaveRule
    \/ MainExtractStrategies \/ MainSaveStrategy \/ MainReturn

MissionSpec == Init /\ [][MissionNext]_vars

IsExtract == call.op \in {"extract_semantic_rules", "extract_procedural_strategies"}

\* C24: extract_semantic_rules and extract_procedural_strategies never raise, and main
\* is never ended by them; when the oracle raises, its answer is not valid JSON, or the
\* parsed value is neither a list nor an object holding the expected array, the result
\* is the empty list; otherwise the items that fail normalization are dropped one by
\* one and the others returned in order.
C24_ExtractionNeverRaises ==
    /\ call.op = "main" => call.pc # "raised"
    /\ IsExtract =>
          LET answer == call.llm.response
              key == IF call.op = "extract_semantic_rules" THEN "rules" ELSE "strategies"
              items == IF answer.json = "list" THEN answer.items ELSE answer[key].items
              Norm(item) ==
                  IF call.op = "extract_semantic_rules"
                  THEN extractor_normalize_rule(item, call.mission_experience.attempts.v)
                  ELSE extractor_normalize_strategy(item, call.mission_experience.attempts.v)
              kept == SelectSeq(items, LAMBDA item : Norm(item) # None)
          IN  /\ ~result.raised
              /\ IF \/ call.llm.raises
                    \/ answer.fence = "prefixed" \/ answer.json \in {"invalid", "other"}
                    \/ answer.json = "dict" /\ answer[key].t # "list"
                 THEN result.value = <<>>
                 ELSE \/ result.value = [i \in 1..Len(kept) |-> Norm(kept[i])]
                      \/ /\ call.op = "extract_procedural_strategies"
                         /\ ~call.mission_experience.success.b
                         /\ result.value = <<>>

\* extract_semantic_rules got an object with four rules inside a code fence and returned
\* the two that normalize
C24_Witness ==
    /\ call.op = "extract_semantic_rules"
    /\ ~call.llm.raises /\ call.llm.response.fence = "fenced"
    /\ Len(call.llm.response.rules.items) = 4
    /\ Len(result.value) = 2

\* C25: extract_procedural_strategies returns the empty list without calling the oracle
\* when the mission record has success=false, and a run of main whose mission was not
\* accomplished calls neither extract_procedural_strategies nor save_procedural_strategy.
C25_ProceduralOnlyFromSuccesses ==
    /\ (call.op = "extract_procedural_strategies" /\ ~call.mission_experience.success.b)
          => result.value = <<>> /\ result.calls = 0
    /\ (call.op = "main" /\ ~call.mission_accomplished)
          => \A i \in 1..Len(call.called) :
                 call.called[i] \notin {"extract_procedural_strategies",
                                        "save_procedural_strategy"}

\* extract_procedural_strategies was called on a failed mission with an oracle whose
\* answer holds a strategy that normalizes
C25_Witness ==
    /\ call.op = "extract_procedural_strategies"
    /\ ~call.mission_experience.success.b
    /\ ~call.llm.raises /\ call.llm.response.fence = "fenced"
    /\ call.llm.response.strategies = List(SomeStrategies)
    /\ result.done

\* the steps of a list, ignoring case
StepsIgnoringCase(steps) == {lower(steps[i]) : i \in 1..Len(steps)}

\* the steps of `steps` that are not in `seen` ignoring case, each once, in order
RECURSIVE FirstSeen(_, _)
FirstSeen(steps, seen) ==
    IF steps = <<>> THEN <<>>
    ELSE IF lower(steps[1]) \in seen THEN FirstSeen(Tail(steps), seen)
    ELSE <<steps[1]>> \o FirstSeen(Tail(steps), seen \cup {lower(steps[1])})

\* C26: the steps_template of a merged strategy is the union of the existing and the
\* incoming steps in first-seen order without duplicates ignoring case: the existing
\* steps in their order, then each incoming step not yet present ignoring case; no two
\* steps of the merged list are equal ignoring case, and the list is not empty.
C26_MergedStepsAreUnion ==
    (call.op = "_merge_strategy" /\ result.done) =>
        LET merged == result.value.steps_template
            existing_steps == call.existing.steps_template
            incoming_steps == call.incoming.steps_template
        IN  /\ merged # <<>>
            /\ merged = existing_steps
                        \o FirstSeen(incoming_steps, StepsIgnoringCase(existing_steps))
            /\ \A i \in 1..Len(merged) : \A j \in 1..Len(merged) :
                  i < j => lower(merged[i]) # lower(merged[j])

\* the canonical text of the oracle's answer when it says similar=true with a text
\* that is not blank, else the empty string
CanonicalOf(llm, key) ==
    IF /\ llm.present /\ ~llm.raises
       /\ llm.response.json = "dict"
       /\ llm.response.similar = Bool(TRUE)
       /\ llm.response[key].t = "str"
       /\ Truthy(strip(llm.response[key].s))
    THEN strip(llm.response[key].s)
    ELSE EmptyStr

MaxFileLines == 3

\* lines of semantic.jsonl: two records as a rewrite leaves them, an empty line, text
\* that is not JSON, a JSON list, a rule with padded text, confidence 1.3 and
\* derived_from -1, a rule with a blank text and a rule without a confidence
SemLines ==
    { [rule |-> <<"n", "u">>, context |-> EmptyStr, confidence |-> 50, derived_from |-> 0],
      [rule |-> <<"m">>, context |-> <<"d">>, confidence |-> 50, derived_from |-> 1],
      Blank, Unparsable, Json(List(<<>>)),
      Json(RuleDict(Str(<<"", "k", "">>), NoneV, Num(130), Num(-1))),
      Json(RuleDict(Str(<<"", "">>), Str(<<"d">>), Num(50), Num(0))),
      Json(RuleDict(Str(<<"k">>), Str(EmptyStr), NoneV, Num(0))) }

\* lines of procedural.jsonl: the strategies a/[b] and a/[b, c], which are similar, the
\* strategy h/[g], an empty line, text that is not JSON, a JSON number, a strategy with
\* padded texts and a step that is not a string, and a strategy whose steps are a string
ProcLines ==
    { [strategy_name |-> <<"a">>, applicable_context |-> EmptyStr,
       steps_template |-> << <<"b">> >>, confidence |-> 50, derived_from |-> 0],
      [strategy_name |-> <<"a">>, applicable_context |-> EmptyStr,
       steps_template |-> << <<"b">>, <<"c">> >>, confidence |-> 50, derived_from |-> 1],
      [strategy_name |-> <<"h">>, applicable_context |-> EmptyStr,
       steps_template |-> << <<"g">> >>, confidence |-> 95, derived_from |-> 0],
      Blank, Unparsable, Json(Num(5)),
      Json(StrategyDict(Str(<<"", "k", "">>), Str(<<"d">>),
                        List(<<Str(<<"", "w">>), NoneV>>), Num(130), Num(-1))),
      Json(StrategyDict(Str(<<"a">>), Str(EmptyStr), Str(<<"b">>), Num(50), Num(0))) }

\* lines of episodic.jsonl: an episode as save_experience writes it, one that holds an
\* embedding, one without attempts, an empty line, text that is not JSON, a JSON list
EpiLines ==
    { Experience(Str(<<"n">>), Str(<<"g">>), Num(1), Bool(TRUE)),
      SetEmbedding(Experience(Str(<<"o">>), Str(EmptyStr), Num(3), Bool(FALSE)),
                   <<1, 1, 1, 1>>),
      Experience(Str(<<"n">>), Str(<<"g">>), NoneV, Bool(TRUE)),
      Blank, Unparsable, Json(List(<<>>)) }

\* one of the three files holds up to MaxFileLines lines, the others are empty; a
\* behaviour works on the one store it finds or, when all are empty, on the first it
\* writes
LinesInit ==
    /\ \/ semFile \in SeqsUpTo(SemLines, MaxFileLines) /\ ProcInit /\ EpiInit
       \/ SemInit /\ procFile \in SeqsUpTo(ProcLines, MaxFileLines) /\ EpiInit
       \/ SemInit /\ ProcInit /\ epiFile \in SeqsUpTo(EpiLines, MaxFileLines)
    /\ CallInit /\ RwInit

\* the bound on the files the saves may leave
WithinLines(file) ==
    /\ Len(file) <= MaxFileLines
    /\ \A i \in 1..Len(file) :
          IF IsRaw(file[i]) THEN TRUE ELSE file[i].derived_from <= MaxDerived

FilesNow == [semFile |-> semFile, procFile |-> procFile, epiFile |-> epiFile]

LinesLoadRules ==
    /\ procFile = <<>> /\ epiFile = <<>>
    /\ call' = [op |-> "load_semantic_rules"]
    /\ result' = Returned(load_semantic_rules(semFile))
    /\ prev' = FilesNow
    /\ UNCHANGED <<semFile, procFile, epiFile, run, rwVars>>

LinesSaveRule ==
    /\ procFile = <<>> /\ epiFile = <<>>
    /\ \E rule_data \in {RuleDict(Str(<<"", "h", "v">>), NoneV, Num(95), Num(0)),
                         RuleDict(Str(<<"", "">>), Str(<<"d">>), Num(50), Num(0))} :
          \E out \in {save_semantic_rule(semFile, rule_data, LlmNone)} :
              /\ WithinLines(out.file)
              /\ semFile' = out.file
              /\ call' = [op |-> "save_semantic_rule", rule_data |-> rule_data]
              /\ result' = IF out.raised THEN Raised ELSE Returned(None)
    /\ prev' = FilesNow
    /\ UNCHANGED <<procFile, epiFile, run, rwVars>>

LinesLoadStrategies ==
    /\ semFile = <<>> /\ epiFile = <<>>
    /\ \E out \in {load_procedural_strategies(procFile)} :
          /\ WithinLines(out.file)
          /\ procFile' = out.file
          /\ result' = Returned(out.value)
    /\ call' = [op |-> "load_procedural_strategies"]
    /\ prev' = FilesNow
    /\ UNCHANGED <<semFile, epiFile, run, rwVars>>

LinesSaveStrategy ==
    /\ semFile = <<>> /\ epiFile = <<>>
    /\ \E strategy \in {StrategyDict(Str(<<"m">>), NoneV, List(<<Str(<<"", "v">>)>>),
                                     Num(95), Num(0)),
                        StrategyDict(Str(<<"m">>), NoneV, List(<<NoneV>>), Num(95), Num(0))} :
          \E file \in {save_procedural_strategy(procFile, strategy)} :
              /\ WithinLines(file)
              /\ procFile' = file
              /\ call' = [op |-> "save_procedural_strategy", strategy |-> strategy]
    /\ result' = Returned(None)
    /\ prev' = FilesNow
    /\ UNCHANGED <<semFile, epiFile, run, rwVars>>

LinesLoadAll ==
    /\ semFile = <<>> /\ procFile = <<>>
    /\ call' = [op |-> "load_all_experiences"]
    /\ result' = Returned(load_all_experiences(epiFile))
    /\ prev' = FilesNow
    /\ UNCHANGED <<semFile, procFile, epiFile, run, rwVars>>

LinesSaveExperience ==
    /\ semFile = <<>> /\ procFile = <<>>
    /\ Len(epiFile) < MaxFileLines
    /\ \E exp \in {Experience(Str(<<"h">>), Str(EmptyStr), Num(2), Bool(TRUE))} :
          \E out \in {save_experience(epiFile, exp)} :
              /\ epiFile' = out.file
              /\ call' = [op |-> "save_experience", exp |-> exp]
              /\ result' = IF out.raised THEN Raised ELSE Returned(None)
    /\ prev' = FilesNow
    /\ UNCHANGED <<semFile, procFile, run, rwVars>>

LinesRetrieve ==
    /\ \E embedder \in Embedders :
          \E out \in {retrieve_relevant_memory(semFile, procFile, epiFile,
                                               <<"q">>, EmptyStr, 1, embedder)} :
              /\ WithinLines(out.procFile)
              /\ semFile' = out.semFile
              /\ procFile' = out.procFile
              /\ epiFile' = out.epiFile
              /\ call' = [op |-> "retrieve_relevant_memory", task |-> <<"q">>,
                          goal |-> EmptyStr, top_k |-> 1, embedder |-> embedder,
                          calls |-> out.calls]
              /\ result' = Returned(out.value)
    /\ prev' = FilesNow
    /\ UNCHANGED <<run, rwVars>>

LinesNext ==
    \/ LinesLoadRules \/ LinesSaveRule
    \/ LinesLoadStrategies \/ LinesSaveStrategy
    \/ LinesLoadAll \/ LinesSaveExperience
    \/ LinesRetrieve

LinesSpec == LinesInit /\ [][LinesNext]_vars

\* the line holds a JSON object with a non-blank rule text and numbers for confidence
\* and derived_from
ValidRuleLine(line) ==
    IF ~IsRaw(line) THEN Truthy(strip(line.rule))
    ELSE /\ line.raw = "json" /\ IsDict(line.value)
         /\ line.value.rule.t = "str" /\ Truthy(strip(line.value.rule.s))
         /\ line.value.confidence.t = "num" /\ line.value.derived_from.t = "num"

\* the line holds a JSON object with a non-blank name, a list of steps with a non-blank
\* string in it, and numbers for confidence and derived_from
ValidStrategyLine(line) ==
    IF ~IsRaw(line) THEN Truthy(strip(line.strategy_name)) /\ line.steps_template # <<>>
    ELSE /\ line.raw = "json" /\ IsDict(line.value)
         /\ line.value.strategy_name.t = "str" /\ Truthy(strip(line.value.strategy_name.s))
         /\ line.value.steps_template.t = "list"
         /\ \E i \in 1..Len(line.value.steps_template.items) :
               /\ line.value.steps_template.items[i].t = "str"
               /\ Truthy(strip(line.value.steps_template.items[i].s))
         /\ line.value.confidence.t = "num" /\ line.value.derived_from.t = "num"

\* the JSON object of the line has the fields of a MissionExperience, each of its type
EpisodeFields(value) ==
    /\ IsDict(value)
    /\ \A f \in {"timestamp", "intent_task", "intent_goal", "final_plan_summary",
                 "result_summary"} : value[f].t = "str"
    /\ value.attempts.t = "num" /\ value.success.t = "bool"

ValidEpisodeLine(line) ==
    IF ~IsRaw(line) THEN EpisodeFields(line) ELSE line.raw = "json" /\ EpisodeFields(line.value)

\* the valid lines of semantic.jsonl, normalized, in file order
RulesOfValidLines(file) ==
    LET F[i \in 0..Len(file)] ==
            IF i = 0 THEN <<>>
            ELSE IF ValidRuleLine(file[i])
                 THEN Append(F[i - 1], _normalize_rule(IF IsRaw(file[i]) THEN file[i].value
                                                       ELSE AsDict(file[i])))
                 ELSE F[i - 1]
    IN  F[Len(file)]

\* the valid lines of procedural.jsonl, normalized, in file order
StrategiesOfValidLines(file) ==
    LET F[i \in 0..Len(file)] ==
            IF i = 0 THEN <<>>
            ELSE IF ValidStrategyLine(file[i])
                 THEN Append(F[i - 1],
                             _normalize_strategy(IF IsRaw(file[i]) THEN file[i].value
                                                 ELSE AsStrategyDict(file[i])))
                 ELSE F[i - 1]
    IN  F[Len(file)]

\* the valid lines of episodic.jsonl, as MissionExperience objects, in file order
EpisodesOfValidLines(file) ==
    LET F[i \in 0..Len(file)] ==
            IF i = 0 THEN <<>>
            ELSE IF ValidEpisodeLine(file[i])
                 THEN Append(F[i - 1], ModelDump(IF IsRaw(file[i]) THEN file[i].value
                                                 ELSE file[i]))
                 ELSE F[i - 1]
    IN  F[Len(file)]

\* every line of semantic.jsonl is a normalized rule
OnlyRules(file) ==
    \A i \in 1..Len(file) :
        /\ ~IsRaw(file[i]) /\ WellFormedRule(file[i])
        /\ file[i].rule = strip(file[i].rule) /\ file[i].context = strip(file[i].context)

\* every line of procedural.jsonl is a normalized strategy
OnlyStrategies(file) ==
    \A i \in 1..Len(file) :
        /\ ~IsRaw(file[i]) /\ WellFormedStrategy(file[i])
        /\ file[i].strategy_name = strip(file[i].strategy_name)
        /\ file[i].applicable_context = strip(file[i].applicable_context)
        /\ \A k \in 1..Len(file[i].steps_template) :
              /\ Truthy(file[i].steps_template[k])
              /\ file[i].steps_template[k] = strip(file[i].steps_template[k])

\* every line of episodic.jsonl is an episode that validates
OnlyEpisodes(file) == \A i \in 1..Len(file) : ~IsRaw(file[i]) /\ EpisodeFields(file[i])

HasMalformedLine(file) ==
    \E i \in 1..Len(file) :
        ~ValidRuleLine(file[i]) /\ ~ValidStrategyLine(file[i]) /\ ~ValidEpisodeLine(file[i])

\* load_semantic_rules and load_all_experiences return the valid lines of their file,
\* in file order, and leave the files alone
ReadersSkipMalformedLines ==
    /\ call.op = "load_semantic_rules" =>
          /\ result = Returned(RulesOfValidLines(prev.semFile))
          /\ FilesNow = prev
    /\ call.op = "load_all_experiences" =>
          /\ result = Returned(EpisodesOfValidLines(prev.epiFile))
          /\ FilesNow = prev

\* a file that a valid save, a consolidating load or an embedding backfill has written
\* holds normalized records only
RewritesDropMalformedLines ==
    /\ (call.op = "save_semantic_rule" /\ ~InvalidRuleData(call.rule_data)) =>
          OnlyRules(semFile)
    /\ (call.op = "save_procedural_strategy" /\ ~InvalidStrategyData(call.strategy)) =>
          OnlyStrategies(procFile)
    /\ call.op \in {"retrieve_relevant_memory", "load_procedural_strategies"} =>
          /\ semFile = prev.semFile \/ OnlyRules(semFile)
          /\ procFile = prev.procFile \/ OnlyStrategies(procFile)
          /\ epiFile = prev.epiFile \/ OnlyEpisodes(epiFile)

\* C28 as stated: no load fails; load_semantic_rules, load_procedural_strategies and
\* load_all_experiences return the valid records of their file, in file order, skipping
\* every line that does not parse or is structurally invalid; and a store file that has
\* been rewritten holds valid normalized records only.
C28_LoadsReturnValidLines ==
    /\ call # NoCall => result.done /\ ~result.raised
    /\ ReadersSkipMalformedLines
    /\ RewritesDropMalformedLines
    /\ call.op = "load_procedural_strategies" =>
          result = Returned(StrategiesOfValidLines(prev.procFile))

\* C28: no load fails; load_semantic_rules and load_all_experiences return the valid
\* records of their file, in file order; load_procedural_strategies returns the
\* consolidation of the valid records of its file, which is these records when no two
\* of them are similar and fewer, merged records otherwise; and a store file that has
\* been rewritten holds valid normalized records only.
C28_LoadsSkipMalformedLines ==
    /\ call # NoCall => result.done /\ ~result.raised
    /\ ReadersSkipMalformedLines
    /\ RewritesDropMalformedLines
    /\ call.op = "load_procedural_strategies" =>
          /\ result = Returned(_consolidate_strategies(StrategiesOfValidLines(prev.procFile)))
          /\ NoSimilarStrategies(StrategiesOfValidLines(prev.procFile)) =>
                result = Returned(StrategiesOfValidLines(prev.procFile))

\* load_procedural_strategies has merged the two valid strategies of a file of three
\* lines and has written the merged strategy back as the only line
C28_Witness ==
    /\ call.op = "load_procedural_strategies"
    /\ Len(prev.procFile) = 3 /\ HasMalformedLine(prev.procFile)
    /\ Len(StrategiesOfValidLines(prev.procFile)) = 2
    /\ Len(result.value) = 1
    /\ procFile = result.value

(***************************************************************************)
(* Two processes in save_semantic_rule, or in save_procedural_strategy, on *)
(* the same store file.  A process reads the file in one step (an open     *)
(* file keeps its content when another process renames over its name),     *)
(* writes its own temporary file row by row, and installs it by a rename.  *)
(* call.w[i] is process i: pc, its argument, the rows of the rewrite it is *)
(* in, the number of rows its temporary file holds (-1: no such file),     *)
(* phase "load" inside load_procedural_strategies and "save" after it, the *)
(* rows it will write as the save's rewrite, the contents it has installed,*)
(* and whether the other process had returned when it read the file.       *)
(***************************************************************************)
Writers == {1, 2}

\* pairs of mutually dissimilar valid records, by store
WriterInputs ==
    { [store |-> "semantic",
       input |-> << RuleDict(Str(<<"n", "u">>), Str(EmptyStr), Num(50), Num(0)),
                    RuleDict(Str(<<"", "h", "v">>), NoneV, Num(95), Num(1)) >>],
      [store |-> "procedural",
       input |-> << StrategyDict(Str(<<"h">>), Str(EmptyStr), List(<<Str(<<"g">>)>>),
                                 Num(95), Num(0)),
                    StrategyDict(Str(<<"m">>), NoneV, List(<<Str(<<"", "v">>)>>),
                                 Num(50), Num(1)) >>] }

\* the store file at the start: empty, one record, or two similar records
WriterFiles(store) ==
    IF store = "semantic"
    THEN { <<>>,
           <<[rule |-> <<"m">>, context |-> <<"d">>, confidence |-> 50, derived_from |-> 1]>> }
    ELSE { <<>>,
           <<[strategy_name |-> <<"a">>, applicable_context |-> EmptyStr,
              steps_template |-> << <<"b">> >>, confidence |-> 50, derived_from |-> 0],
             [strategy_name |-> <<"a">>, applicable_context |-> EmptyStr,
              steps_template |-> << <<"b">>, <<"c">> >>, confidence |-> 50,
              derived_from |-> 1]>> }

WriterAt(input) ==
    [pc |-> "start", input |-> input, rows |-> <<>>, temp |-> -1, phase |-> "save",
     final |-> <<>>, installed |-> <<>>, sawOther |-> FALSE]

WritersInit ==
    /\ \E job \in WriterInputs : \E file \in WriterFiles(job.store) :
          /\ semFile = IF job.store = "semantic" THEN file ELSE <<>>
          /\ procFile = IF job.store = "procedural" THEN file ELSE <<>>
          /\ call = [op |-> "concurrent_saves", store |-> job.store, last |-> 0,
                     w |-> [i \in Writers |-> WriterAt(job.input[i])]]
          /\ prev = file
    /\ EpiInit /\ result = Pending /\ run = 0 /\ RwInit

StoreFile == IF call.store = "semantic" THEN semFile ELSE procFile

\* process i reads the store file: load_semantic_rules(), or the loop of
\* load_procedural_strategies(); everything it computes up to the next rename follows
\* from what it read
WriterRead ==
    /\ \E i \in Writers :
          /\ call.w[i].pc = "start"
          /\ \E loaded \in {IF call.store = "semantic"
                            THEN [file |-> StoreFile, value |-> <<>>]
                            ELSE load_procedural_strategies(StoreFile)},
                final \in {IF call.store = "semantic"
                           THEN save_semantic_rule(StoreFile, call.w[i].input, LlmNone).file
                           ELSE save_procedural_strategy(StoreFile, call.w[i].input)} :
                call' = [call EXCEPT
                    !.w[i].pc = "computed",
                    !.w[i].final = final,
                    !.w[i].phase = IF loaded.file # StoreFile THEN "load" ELSE "save",
                    !.w[i].rows = IF loaded.file # StoreFile THEN loaded.file ELSE final,
                    !.w[i].sawOther = \A j \in Writers \ {i} : call.w[j].pc = "done"]
    /\ UNCHANGED <<semFile, procFile, epiFile, result, prev, run, rwVars>>

\* tempfile.NamedTemporaryFile(..., delete=False): a new, empty file of its own name
WriterOpen ==
    /\ \E i \in Writers :
          /\ call.w[i].pc = "computed"
          /\ call' = [call EXCEPT !.w[i].pc = "opened", !.w[i].temp = 0]
    /\ UNCHANGED <<semFile, procFile, epiFile, result, prev, run, rwVars>>

\* handle.write(json.dumps(row)); handle.write("\n")
WriterWrite ==
    /\ \E i \in Writers :
          /\ call.w[i].pc = "opened"
          /\ call.w[i].temp < Len(call.w[i].rows)
          /\ call' = [call EXCEPT !.w[i].temp = @ + 1]
    /\ UNCHANGED <<semFile, procFile, epiFile, result, prev, run, rwVars>>

\* the with block ends and temp_path.replace(file_path) installs the temporary file;
\* after the rewrite of load_procedural_strategies the save goes on to its own rewrite
WriterReplace ==
    /\ \E i \in Writers :
          /\ call.w[i].pc = "opened"
          /\ call.w[i].temp = Len(call.w[i].rows)
          /\ \E content \in {SubSeq(call.w[i].rows, 1, call.w[i].temp)} :
                /\ semFile' = IF call.store = "semantic" THEN content ELSE semFile
                /\ procFile' = IF call.store = "procedural" THEN content ELSE procFile
                /\ call' = [call EXCEPT
                      !.w[i].pc = IF call.w[i].phase = "load" THEN "computed" ELSE "done",
                      !.w[i].phase = "save",
                      !.w[i].rows = call.w[i].final,
                      !.w[i].temp = -1,
                      !.w[i].installed = Append(@, content),
                      !.last = IF call.w[i].phase = "load" THEN call.last ELSE i]
    /\ UNCHANGED <<epiFile, result, prev, run, rwVars>>

WritersNext == WriterRead \/ WriterOpen \/ WriterWrite \/ WriterReplace

WritersSpec == WritersInit /\ [][WritersNext]_vars

\* the record process i saves is one of the lines of the file
HoldsRecordOf(file, i) ==
    \E k \in 1..Len(file) :
        IF call.store = "semantic"
        THEN file[k].rule = strip(call.w[i].input.rule.s)
        ELSE file[k].strategy_name = strip(call.w[i].input.strategy_name.s)

BothReturned == \A i \in Writers : call.w[i].pc = "done"

\* every line of the file is a whole normalized record
CompleteOutput(file) ==
    IF call.store = "semantic" THEN OnlyRules(file) ELSE OnlyStrategies(file)

\* C29: while two processes save mutually dissimilar valid records into the same store
\* file, the file holds at every step either what it held at the start or all the rows
\* of one rewrite of one of the processes, never a part of them; and when both have
\* returned, it holds the complete output of the process that renamed last, with that
\* process's record in it and with the other's record in it only if the last process
\* read the file after the other had returned: otherwise the other's update is lost.
C29_LostUpdateButCompleteFiles ==
    /\ \/ StoreFile = prev
       \/ \E i \in Writers : \E k \in 1..Len(call.w[i].installed) :
             /\ StoreFile = call.w[i].installed[k]
             /\ CompleteOutput(StoreFile)
    /\ BothReturned =>
          /\ call.last \in Writers
          /\ StoreFile = call.w[call.last].final
          /\ HoldsRecordOf(StoreFile, call.last)
          /\ \A j \in Writers \ {call.last} :
                HoldsRecordOf(StoreFile, j) <=> call.w[call.last].sawOther

\* both processes have returned and the record of the one that renamed first is not in
\* the file, nor is the file what the other process read
C29_Witness ==
    /\ BothReturned
    /\ \E j \in Writers \ {call.last} : ~HoldsRecordOf(StoreFile, j)
    /\ HoldsRecordOf(StoreFile, call.last)
    /\ StoreFile # prev

IsLoadStrategies == call.op = "load_procedural_strategies" /\ result.done

\* C30: load_procedural_strategies leaves procedural.jsonl exactly as it was, lines
\* that do not parse or are invalid or not normalized included, when no two of the
\* file's valid strategies are similar; when it does write the file, it returns fewer
\* strategies than the file has valid lines.
C30_LoadRewritesOnlyAfterMerge ==
    IsLoadStrategies =>
        /\ NoSimilarStrategies(StrategiesOfValidLines(prev.procFile)) =>
              procFile = prev.procFile
        /\ procFile # prev.procFile =>
              /\ Len(result.value) < Len(StrategiesOfValidLines(prev.procFile))
              /\ procFile = result.value

\* the load has returned the two dissimilar strategies of a file of three lines, one of
\* them unparsable or invalid and one not normalized, and the file is as it was
C30_Witness ==
    /\ IsLoadStrategies
    /\ Len(prev.procFile) = 3 /\ HasMalformedLine(prev.procFile)
    /\ \E i \in 1..3 : ValidStrategyLine(prev.procFile[i]) /\ IsRaw(prev.procFile[i])
    /\ Len(result.value) = 2
    /\ NoSimilarStrategies(StrategiesOfValidLines(prev.procFile))
    /\ procFile = prev.procFile

(***************************************************************************)
(* Retrieval when the embeddings API fails for a stored record             *)
(***************************************************************************)
\* the records the three tiers load from the stores as the call found them
LoadedByCall ==
    Len(load_semantic_rules(prev.semFile))
    + Len(_consolidate_strategies(LoadedStrategies(prev.procFile)))
    + Len(_load_episodic_records(prev.epiFile))

\* the returned item's record had no usable embedding in its file: a rule or strategy
\* comes out of the load without one, an episode keeps the one its line holds
EmbeddedByCall(item) ==
    \/ item.memory_type \in {"semantic", "procedural"}
    \/ \E k \in 1..Len(prev.epiFile) :
          /\ WithoutEmbedding(prev.epiFile[k]) = WithoutEmbedding(item.data)
          /\ _normalize_embedding(GetEmbedding(prev.epiFile[k])) = None

\* the store file of a tier, by memory_type
FileOfTier(memory_type) ==
    CASE memory_type = "semantic" -> semFile
      [] memory_type = "procedural" -> procFile
      [] memory_type = "episodic" -> epiFile

\* C31: in a retrieve_relevant_memory call whose query was embedded, a record whose own
\* embedding call raises is still a candidate, with similarity_score 0.0 and without an
\* embedding in its data or in its line of the store file; a record whose embedding call
\* answers a vector has the cosine of that vector and the query as similarity_score and
\* the vector stored; with top_k at least the number of loaded records every one of them
\* is returned; and the call returns without raising.
C31_FailedRecordEmbeddingDegrades ==
    (call.op = "retrieve_relevant_memory") =>
        /\ result.done /\ ~result.raised
        /\ ReachedRanking =>
              /\ Len(result.value) = Min2(call.top_k, LoadedByCall)
              /\ \A i \in 1..Len(result.value) :
                    LET item == result.value[i]
                    IN  EmbeddedByCall(item) =>
                            IF ApiRaises(item.summary)
                            THEN /\ item.similarity_score = 0
                                 /\ "embedding" \notin DOMAIN item.data
                                 /\ \A k \in 1..Len(FileOfTier(item.memory_type)) :
                                       WithoutEmbedding(FileOfTier(item.memory_type)[k])
                                           = item.data
                                       => FileOfTier(item.memory_type)[k] = item.data
                            ELSE /\ item.similarity_score =
                                        compute_cosine_similarity(QueryOfCall.value,
                                                                  ApiVector(item.summary))
                                 /\ ApiVector(item.summary) # <<>> =>
                                       /\ GetEmbedding(item.data) = List(ApiVector(item.summary))
                                       /\ \E k \in 1..Len(FileOfTier(item.memory_type)) :
                                             FileOfTier(item.memory_type)[k] = item.data

\* the call returned a rule whose embedding call raised, with similarity 0.0 and no
\* embedding, next to a rule that was embedded, scored and stored with its vector
C31_Witness ==
    /\ ReachedRanking
    /\ \E i \in 1..Len(result.value) :
          /\ result.value[i].memory_type = "semantic"
          /\ ApiRaises(result.value[i].summary)
          /\ result.value[i].similarity_score = 0
          /\ "embedding" \notin DOMAIN result.value[i].data
    /\ \E i \in 1..Len(result.value) :
          /\ result.value[i].memory_type = "semantic"
          /\ ~ApiRaises(result.value[i].summary)
          /\ result.value[i].similarity_score # 0
          /\ "embedding" \in DOMAIN result.value[i].data
    /\ semFile # prev.semFile

(***************************************************************************)
(* The semantic store under an oracle that fails or answers "not similar"  *)
(***************************************************************************)
\* no oracle; an oracle that raises; answers that are not JSON, a JSON list, an object
\* without "similar", similar=false with and without canonical texts, similar=0; and
\* similar=true
VetoLlms ==
    { LlmNone, LlmRaise,
      LlmAnswer([json |-> "invalid", similar |-> NoneV,
                 canonical_rule |-> NoneV, canonical_context |-> NoneV]),
      LlmAnswer([json |-> "other", similar |-> NoneV,
                 canonical_rule |-> NoneV, canonical_context |-> NoneV]),
      LlmAnswer([json |-> "dict", similar |-> NoneV,
                 canonical_rule |-> Str(<<"k">>), canonical_context |-> NoneV]),
      LlmAnswer([json |-> "dict", similar |-> Bool(FALSE),
                 canonical_rule |-> Str(EmptyStr), canonical_context |-> Str(EmptyStr)]),
      LlmAnswer([json |-> "dict", similar |-> Bool(FALSE),
                 canonical_rule |-> Str(<<"k">>), canonical_context |-> Str(<<"w">>)]),
      LlmAnswer([json |-> "dict", similar |-> Num(0),
                 canonical_rule |-> NoneV, canonical_context |-> NoneV]),
      LlmAnswer([json |-> "dict", similar |-> Bool(TRUE),
                 canonical_rule |-> NoneV, canonical_context |-> NoneV]) }

VetoSave == \E rule_data \in OracleInputs, llm \in VetoLlms : TracedSave(rule_data, llm)

VetoSpec == Init /\ [][VetoSave]_vars

\* the oracle is absent, raised, or gave an answer whose "similar" is false, missing
\* or of another type than boolean and string (a string is the case of C22)
NoPositiveAnswer(llm) ==
    \/ ~llm.present
    \/ llm.raises
    \/ llm.response.json # "dict"
    \/ llm.response.similar.t \notin {"bool", "str"}
    \/ llm.response.similar = Bool(FALSE)

\* the rules the save of this step had before it: the file's and the incoming one
RulesAtHand ==
    {prev[i] : i \in 1..Len(prev)} \cup {semFile[i] : i \in 1..Len(semFile)}
    \cup {_normalize_rule(call.rule_data)}

\* C32: with an oracle that is absent, raises, answers text that is not a JSON object, or
\* answers similar=false, the judgment of every pair of rules is the token-overlap
\* heuristic's, with no canonical text, and the save leaves the file the same save
\* without an oracle leaves; with any oracle every pair the heuristic judges similar is
\* judged similar.
C32_ExplicitNoDoesNotVeto ==
    IsSave =>
        /\ \A left \in RulesAtHand : \A right \in RulesAtHand :
              LET decision == _llm_similarity_decision(left, right, call.llm)
                  heuristic == _is_similar_rule(left, right)
              IN  /\ ~decision.raised
                  /\ heuristic => decision.similar
                  /\ NoPositiveAnswer(call.llm) =>
                        /\ decision.similar = heuristic
                        /\ decision.canonical_rule = EmptyStr
                        /\ decision.canonical_context = EmptyStr
        /\ NoPositiveAnswer(call.llm) =>
              /\ result = Returned(None)
              /\ semFile = save_semantic_rule(prev, call.rule_data, LlmNone).file

\* an oracle that answers similar=false was asked about a rule similar to the one in
\* the file, and the two were merged
C32_Witness ==
    /\ IsSave
    /\ call.llm.present /\ ~call.llm.raises
    /\ call.llm.response.json = "dict" /\ call.llm.response.similar = Bool(FALSE)
    /\ Len(prev) = 1 /\ Len(semFile) = 1
    /\ _is_similar_rule(prev[1], _normalize_rule(call.rule_data))
    /\ prev[1].rule # _normalize_rule(call.rule_data).rule
    /\ semFile[1].derived_from = prev[1].derived_from + 1

\* ---------------------------------------------------------------------------------
\* executor/tool_registry.py: execute_plan and its per-step retry loop
\* ---------------------------------------------------------------------------------

MAX_RETRIES == 3

TOOL_REGISTRY == {<<"python_exec">>, <<"python">>}

Step(description, tool, code) == [description |-> description, tool |-> tool, code |-> code]

\* the environment of one execute_plan call: the tool fails tools.fails[index] times on
\* step index before it returns a value, failing by returning a string ("text") or by
\* raising ("raise"); the oracle, when there is one, returns corrected code
\* llm.corrections[index] times for step index and raises from then on
Tools(fails, how) == [fails |-> fails, how |-> how]
Corrector(corrections) == [present |-> TRUE, corrections |-> corrections]

\* result = tool_fn(current_code), an exception formatted to a string
ToolResult(tools, index, attempt) ==
    IF attempt < tools.fails[index]
    THEN IF tools.how = "raise" THEN "exception text" ELSE "text"
    ELSE "value"

\* isinstance(result, str)
IsErrorText(tool_result) == tool_result # "value"

\* llm.generate(prompt) followed by _extract_code_only
Correction(llm, index, retry_number) ==
    IF retry_number > llm.corrections[index] THEN "raise" ELSE "code"

\* llm is None or attempt == MAX_RETRIES, off by one
GivesUp_late(llm, attempt) == ~llm.present \/ attempt = MAX_RETRIES + 1

\* llm is None or attempt == MAX_RETRIES
GivesUp(llm, attempt) == ~llm.present \/ attempt = MAX_RETRIES

ToolCall(index) == [step |-> index, call |-> "tool_fn"]
LlmCall(index) == [step |-> index, call |-> "llm.generate"]

StepResult(index, status, error, retry_attempts) ==
    [step |-> index, status |-> status, error |-> error, retry_attempts |-> retry_attempts]

\* for attempt in range(MAX_RETRIES + 1): one pass of the body per call; `appended` is
\* what the loop appended to results, `events` the calls made so far
RECURSIVE RetryLoop(_, _, _, _, _)
RetryLoop(index, attempt, tools, llm, events) ==
    IF attempt > MAX_RETRIES
    THEN [appended |-> <<>>, events |-> events]
    ELSE IF ~IsErrorText(ToolResult(tools, index, attempt))
    THEN [appended |-> <<StepResult(index, "success", "", attempt)>>,
          events |-> Append(events, ToolCall(index))]
    ELSE IF GivesUp(llm, attempt)
    THEN [appended |-> <<StepResult(index, "error",
                                    ToolResult(tools, index, attempt), attempt)>>,
          events |-> Append(events, ToolCall(index))]
    ELSE IF Correction(llm, index, attempt + 1) = "raise"
    THEN [appended |-> <<StepResult(index, "error", "LLM correction failed",
                                    attempt + 1)>>,
          events |-> events \o <<ToolCall(index), LlmCall(index)>>]
    ELSE RetryLoop(index, attempt + 1, tools, llm,
                   events \o <<ToolCall(index), LlmCall(index)>>)

\* the body of `for index, step in enumerate(plan["steps"], start=1)`
ExecuteStep(step, index, tools, llm, events) ==
    IF ~IsDict(step)
    THEN [appended |-> <<StepResult(index, "error", "Invalid step format", 0)>>,
          events |-> events]
    ELSE IF step.tool.t # "str" \/ step.code.t # "str"
    THEN [appended |-> <<StepResult(index, "error", "Invalid step fields", 0)>>,
          events |-> events]
    ELSE IF step.tool.s \notin TOOL_REGISTRY
    THEN [appended |-> <<StepResult(index, "skipped", "not registered", 0)>>,
          events |-> events]
    ELSE RetryLoop(index, 0, tools, llm, events)

RECURSIVE ExecuteSteps(_, _, _, _, _, _)
ExecuteSteps(steps, index, tools, llm, results, events) ==
    IF index > Len(steps)
    THEN [results |-> results, events |-> events]
    ELSE ExecuteSteps(steps, index + 1, tools, llm,
                      results \o ExecuteStep(steps[index], index, tools, llm, events).appended,
                      ExecuteStep(steps[index], index, tools, llm, events).events)

HasStepsList(plan) ==
    IF IsDict(plan) THEN IF "steps" \in DOMAIN plan THEN plan.steps.t = "list" ELSE FALSE
    ELSE FALSE

execute_plan(plan, tools, llm) ==
    IF ~HasStepsList(plan)
    THEN [results |-> <<>>, events |-> <<>>]
    ELSE ExecuteSteps(plan.steps.items, 1, tools, llm, <<>>, <<>>)

\* ---------------------------------------------------------------------------------
\* main.py: the attempt loop, with planner.create_plan and evaluator.evaluate_goal
\* ---------------------------------------------------------------------------------

\* what llm.generate gives the planner or the evaluator: it raises, or returns text
\* that is not JSON, or text that parses to `payload`
Raises == [raises |-> TRUE]
NotJson(text) == [raises |-> FALSE, json |-> FALSE, text |-> text]
JsonText(payload) == [raises |-> FALSE, json |-> TRUE, payload |-> payload]

\* ast.parse(code) does not raise SyntaxError; "(" stands for code that does not parse
_is_executable_python(code) == code # <<"(">>

\* the test of _normalize_plan's loop that keeps raw_step
KeepsRawStep(raw_step) ==
    IF ~IsDict(raw_step) THEN FALSE
    ELSE IF raw_step.description.t # "str" \/ raw_step.tool.t # "str"
            \/ raw_step.code.t # "str"
    THEN FALSE
    ELSE IF raw_step.tool.s \notin TOOL_REGISTRY THEN FALSE
    ELSE raw_step.tool.s = <<"python_exec">> => _is_executable_python(raw_step.code.s)

StrippedStep(raw_step) ==
    Step(Str(strip(raw_step.description.s)), Str(strip(raw_step.tool.s)),
         Str(strip(raw_step.code.s)))

RECURSIVE NormalizedPlanSteps(_)
NormalizedPlanSteps(raw_steps) ==
    IF raw_steps = <<>> THEN <<>>
    ELSE IF KeepsRawStep(Head(raw_steps))
    THEN <<StrippedStep(Head(raw_steps))>> \o NormalizedPlanSteps(Tail(raw_steps))
    ELSE NormalizedPlanSteps(Tail(raw_steps))

_normalize_plan(payload) ==
    IF ~HasStepsList(payload) THEN None
    ELSE [steps |-> List(NormalizedPlanSteps(payload.steps.items))]

\* outcome: [raised, value]; llm.generate is called outside the try
create_plan(answer) ==
    IF answer.raises THEN [raised |-> TRUE, value |-> None]
    ELSE IF ~answer.json THEN [raised |-> FALSE, value |-> Str(strip(answer.text))]
    ELSE IF _normalize_plan(answer.payload) # None
    THEN [raised |-> FALSE, value |-> _normalize_plan(answer.payload)]
    ELSE [raised |-> FALSE, value |-> answer.payload]

Evaluation(goal_satisfied, reason) == [goal_satisfied |-> goal_satisfied, reason |-> reason]

\* outcome: [raised, value]; payload.get is called outside the try, on whatever
\* json.loads returned
evaluate_goal(answer) ==
    IF answer.raises THEN [raised |-> FALSE, value |-> Evaluation(FALSE, "Failed to parse")]
    ELSE IF ~answer.json
    THEN [raised |-> FALSE, value |-> Evaluation(FALSE, "Failed to parse")]
    ELSE IF ~IsDict(answer.payload)
    THEN [raised |-> TRUE, value |-> None]
    ELSE IF answer.payload.goal_satisfied.t = "bool" /\ answer.payload.reason.t = "str"
    THEN [raised |-> FALSE,
          value |-> Evaluation(answer.payload.goal_satisfied.b, "reason")]
    ELSE [raised |-> FALSE, value |-> Evaluation(FALSE, "Invalid evaluation payload")]

PlanAnswers ==
    { Raises,
      NotJson(<<"", "sorry">>),
      JsonText(List(<<>>)),
      JsonText([steps |-> NoneV]),
      JsonText([steps |-> List(<< Str(<<"s">>),
                                  Step(Str(<<"d">>), Str(<<"shell">>), Str(<<"c">>)),
                                  Step(Str(<<"d">>), Str(<<"python_exec">>), Str(<<"(">>)) >>)]),
      JsonText([steps |-> List(<< Step(Str(<<"d", "">>), Str(<<"python_exec">>),
                                       Str(<<"c">>)) >>)]) }

EvaluationAnswers ==
    { Raises,
      NotJson(<<"yes">>),
      JsonText(List(<<>>)),
      JsonText([goal_satisfied |-> Bool(TRUE), reason |-> Str(<<"r">>)]),
      JsonText([goal_satisfied |-> Bool(FALSE), reason |-> Str(<<"r">>)]),
      JsonText([goal_satisfied |-> Str(<<"true">>), reason |-> Str(<<"r">>)]),
      JsonText([goal_satisfied |-> Bool(TRUE), reason |-> NoneV]) }

\* the tool of a one-step plan succeeds at once, or never
LoopTools == {Tools(<<0>>, "text"), Tools(<<MAX_RETRIES + 1>>, "raise")}

HistoryEntry(attempt, execution_results, evaluation) ==
    [attempt |-> attempt, results |-> Len(execution_results), evaluation |-> evaluation]

\* main() up to the attempt loop; prev keeps the files the run began with
LoopBegin ==
    /\ \/ call = NoCall
       \/ call.op = "main" /\ call.pc \in {"done", "raised"}
    /\ Len(epiFile) < MaxEpisodes
    /\ procFile' = load_procedural_strategies(procFile).file
    /\ call' = [op |-> "main", pc |-> "create_plan", attempt |-> 1,
                mission_history |-> <<>>, mission_accomplished |-> FALSE,
                plan |-> None, execution_results |-> <<>>, experience |-> None]
    /\ result' = Pending
    /\ prev' = [semFile |-> semFile, procFile |-> procFile, epiFile |-> epiFile]
    /\ UNCHANGED <<semFile, epiFile, run, rwVars>>

\* plan = create_plan(intent, llm, ...)
LoopCreatePlan ==
    /\ call.op = "main" /\ call.pc = "create_plan"
    /\ \E answer \in PlanAnswers :
          \E out \in {create_plan(answer)} :
              /\ call' = [call EXCEPT !.pc = IF out.raised THEN "raised" ELSE "execute_plan",
                                      !.plan = out.value,
                                      !.execution_results = <<>>]
              /\ result' = IF out.raised THEN Raised ELSE result
    /\ UNCHANGED <<semFile, procFile, epiFile, prev, run, rwVars>>

\* execution_results = execute_plan(plan, llm=llm) when the plan has a list of steps
LoopExecutePlan ==
    /\ call.op = "main" /\ call.pc = "execute_plan"
    /\ \E tools \in LoopTools :
          call' = [call EXCEPT !.pc = "evaluate_goal",
                               !.execution_results =
                                   IF HasStepsList(call.plan)
                                   THEN execute_plan(call.plan, tools, Corrector(<<0>>)).results
                                   ELSE <<>>]
    /\ UNCHANGED <<semFile, procFile, epiFile, result, prev, run, rwVars>>

\* the evaluation of the attempt, mission_history.append, and the test that breaks out
\* of the loop or goes on to the next attempt
LoopEvaluate ==
    /\ call.op = "main" /\ call.pc = "evaluate_goal"
    /\ \E answer \in EvaluationAnswers :
          \E out \in {IF call.execution_results # <<>> THEN evaluate_goal(answer)
                      ELSE [raised |-> FALSE,
                            value |-> Evaluation(FALSE, "No executable plan")]} :
              IF out.raised
              THEN /\ call' = [call EXCEPT !.pc = "raised"]
                   /\ result' = Raised
              ELSE /\ call' = [call EXCEPT
                          !.mission_history =
                              Append(@, HistoryEntry(call.attempt, call.execution_results,
                                                     out.value)),
                          !.mission_accomplished = out.value.goal_satisfied,
                          !.attempt = IF out.value.goal_satisfied
                                         \/ call.attempt = MAX_MISSION_ATTEMPTS
                                      THEN @ ELSE @ + 1,
                          !.pc = IF out.value.goal_satisfied
                                    \/ call.attempt = MAX_MISSION_ATTEMPTS
                                 THEN "save_experience" ELSE "create_plan"]
                   /\ result' = result
    /\ UNCHANGED <<semFile, procFile, epiFile, prev, run, rwVars>>

\* attempts_used = len(mission_history); the experience is built and saved. The
\* extraction that follows is MissionSpec's.
LoopSaveExperience ==
    /\ call.op = "main" /\ call.pc = "save_experience"
    /\ \E experience \in {Experience(Str(<<"n">>), Str(<<"g">>),
                                     Num(Len(call.mission_history)),
                                     Bool(call.mission_accomplished))} :
          /\ epiFile' = save_experience(epiFile, experience).file
          /\ call' = [call EXCEPT !.pc = "done", !.experience = experience]
    /\ result' = Returned(None)
    /\ UNCHANGED <<semFile, procFile, prev, run, rwVars>>

LoopNext ==
    \/ LoopBegin
    \/ LoopCreatePlan
    \/ LoopExecutePlan
    \/ LoopEvaluate
    \/ LoopSaveExperience

LoopSpec == Init /\ [][LoopNext]_vars

RunEnded == call.op = "main" /\ call.pc \in {"done", "raised"}

SatisfiedAt(i) == call.mission_history[i].evaluation.goal_satisfied

\* the loop ran 1..MAX_MISSION_ATTEMPTS attempts and only the last may be satisfied
LoopRanAndStopped ==
    /\ Len(call.mission_history) \in 1..MAX_MISSION_ATTEMPTS
    /\ \A i \in 1..Len(call.mission_history) :
          /\ call.mission_history[i].attempt = i
          /\ SatisfiedAt(i) => i = Len(call.mission_history)
    /\ ~SatisfiedAt(Len(call.mission_history)) =>
          Len(call.mission_history) = MAX_MISSION_ATTEMPTS

\* the run appended one episodic record, of the attempts run and the last verdict
SavedOneRecord ==
    /\ Len(epiFile) = Len(prev.epiFile) + 1
    /\ SubSeq(epiFile, 1, Len(prev.epiFile)) = prev.epiFile
    /\ epiFile[Len(epiFile)].attempts = Num(Len(call.mission_history))
    /\ epiFile[Len(epiFile)].success = Bool(SatisfiedAt(Len(call.mission_history)))

\* C33: every run of main makes between 1 and MAX_MISSION_ATTEMPTS attempts, stops
\* after the first satisfied one, and saves exactly one episodic record, whose
\* attempts is the number of attempts run and whose success is the last verdict.
C33_OneRecordPerRun ==
    RunEnded => LoopRanAndStopped /\ SavedOneRecord

\* the same for the runs that reach save_experience
C33_CompletedRunsSaveOneRecord ==
    (call.op = "main" /\ call.pc = "done") => LoopRanAndStopped /\ SavedOneRecord

\* a run that ended satisfied at its third attempt and saved its record
C33_Witness ==
    /\ call.op = "main" /\ call.pc = "done"
    /\ Len(call.mission_history) = 3
    /\ SatisfiedAt(3)

\* a run whose evaluator raised after the plan was executed: no record was saved
C33_RaisedRun ==
    /\ call.op = "main" /\ call.pc = "raised"
    /\ call.execution_results # <<>>
    /\ epiFile = prev.epiFile

\* ---------------------------------------------------------------------------------
\* execute_plan called on plans of every step shape, under every environment
\* ---------------------------------------------------------------------------------

MaxSteps == 2

RegisteredStep == Step(Str(<<"d">>), Str(<<"python">>), Str(<<"c">>))

PlanSteps ==
    { Str(<<"s">>),
      Step(Str(<<"d">>), NoneV, Str(<<"c">>)),
      Step(NoneV, Str(<<"shell">>), Str(<<"c">>)),
      RegisteredStep }

ExecPlans ==
    {Str(<<"p">>), [steps |-> NoneV]}
    \cup {[steps |-> List(steps)] : steps \in SeqsUpTo(PlanSteps, MaxSteps)}

ExecTools ==
    {Tools(fails, how) : fails \in [1..MaxSteps -> 0..(MAX_RETRIES + 1)],
                         how \in {"text", "raise"}}

ExecLlms ==
    {LlmNone}
    \cup {Corrector(corrections) : corrections \in [1..MaxSteps -> 0..(MAX_RETRIES + 1)]}

ExecInit ==
    /\ SemInit /\ ProcInit /\ EpiInit /\ RwInit
    /\ prev = <<>> /\ run = 0
    /\ result = Pending
    /\ \E plan \in ExecPlans, tools \in ExecTools, llm \in ExecLlms :
          call = [op |-> "execute_plan", plan |-> plan, tools |-> tools, llm |-> llm]

\* execute_plan(plan, llm) on the inputs of the call
ExecutePlanApply ==
    /\ call.op = "execute_plan" /\ ~result.done
    /\ \E out \in {execute_plan(call.plan, call.tools, call.llm)} :
          result' = [done |-> TRUE, raised |-> FALSE, value |-> out.results,
                     events |-> out.events]
    /\ UNCHANGED <<semFile, procFile, epiFile, call, prev, run, rwVars>>

ExecSpec == ExecInit /\ [][ExecutePlanApply]_vars

IsExecute == call.op = "execute_plan" /\ result.done

StepsOfCall == IF HasStepsList(call.plan) THEN call.plan.steps.items ELSE <<>>

IsRegistered(step) ==
    IF ~IsDict(step) THEN FALSE
    ELSE IF step.tool.t # "str" \/ step.code.t # "str" THEN FALSE
    ELSE step.tool.s \in TOOL_REGISTRY

ToolCalls(i) == Count(result.events, ToolCall(i))
LlmCalls(i) == Count(result.events, LlmCall(i))

\* C34: execute_plan returns one result entry per step, in order; a step with a
\* registered tool has its tool invoked 1..MAX_RETRIES + 1 times and the oracle asked at
\* most MAX_RETRIES times; no invocation follows one that returned a value, and the
\* entry is a success exactly when the last invocation returned a value; without an
\* oracle there is one invocation; and a correction call that raised is the step's last
\* call, its entry an error naming the failed correction. Other steps invoke nothing.
C34_BoundedRetriesOneResultPerStep ==
    IsExecute =>
        /\ Len(result.value) = Len(StepsOfCall)
        /\ \A i \in 1..Len(StepsOfCall) :
              /\ result.value[i].step = i
              /\ IF ~IsRegistered(StepsOfCall[i])
                 THEN /\ ToolCalls(i) = 0 /\ LlmCalls(i) = 0
                      /\ result.value[i].status \in {"error", "skipped"}
                 ELSE /\ ToolCalls(i) \in 1..(MAX_RETRIES + 1)
                      /\ LlmCalls(i) <= MAX_RETRIES
                      /\ \A attempt \in 0..(ToolCalls(i) - 2) :
                            IsErrorText(ToolResult(call.tools, i, attempt))
                      /\ result.value[i].status = "success"
                            <=> ~IsErrorText(ToolResult(call.tools, i, ToolCalls(i) - 1))
                      /\ result.value[i].status \in {"success", "error"}
                      /\ ~call.llm.present => ToolCalls(i) = 1 /\ LlmCalls(i) = 0
                      /\ call.llm.present =>
                            IF LlmCalls(i) > call.llm.corrections[i]
                            THEN /\ result.value[i].status = "error"
                                 /\ result.value[i].error = "LLM correction failed"
                                 /\ LlmCalls(i) = call.llm.corrections[i] + 1
                                 /\ ToolCalls(i) = LlmCalls(i)
                            ELSE ToolCalls(i) = LlmCalls(i) + 1

\* a two-step plan whose first step succeeded at the fourth invocation, after three
\* corrections, and whose second step ended when the first correction call raised
C34_Witness ==
    /\ IsExecute
    /\ Len(StepsOfCall) = 2
    /\ ToolCalls(1) = MAX_RETRIES + 1 /\ LlmCalls(1) = MAX_RETRIES
    /\ result.value[1].status = "success"
    /\ ToolCalls(2) = 1 /\ LlmCalls(2) = 1
    /\ result.value[2].status = "error"

\* ---------------------------------------------------------------------------------
\* the record a multi-merge of _merge_incoming_with_existing leaves
\* ---------------------------------------------------------------------------------

\* the oracle names no canonical text: there is none, or its call raises
WithoutCanonical == call.llm \in {LlmNone, LlmRaise}

\* confidence and derived_from of the incoming rule reinforced once for each existing
\* rule of `matched`, in list order
ReinforcedBy(existing_rules, incoming_rule, matched) ==
    LET F[i \in 0..Len(existing_rules)] ==
            IF i = 0
            THEN [confidence |-> incoming_rule.confidence,
                  derived_from |-> incoming_rule.derived_from]
            ELSE IF i \in matched
            THEN [confidence |-> ReinforcedConfidence(existing_rules[i], F[i - 1]),
                  derived_from |-> ReinforcedDerivedFrom(existing_rules[i], F[i - 1])]
            ELSE F[i - 1]
    IN  F[Len(existing_rules)]

\* C35: when _merge_incoming_with_existing, given no canonical text, matches two or
\* more existing rules, each judged against the incoming rule as merged so far, the
\* matched slots collapse into one record at the position of the first match; that
\* record has the rule text of the last matched existing rule, and the confidence and
\* derived_from of the incoming rule reinforced (+0.1 up to 1.0 over the larger
\* confidence, +1 over the larger derived_from) once per matched rule in list order.
C35_CollapsedRecordCarriesLastMatch ==
    (IsMergeIncoming /\ WithoutCanonical
       /\ Cardinality(MatchedSlots(call.existing_rules, call.incoming_rule, call.llm)) >= 2)
    => LET existing_rules == call.existing_rules
           matched == MatchedSlots(existing_rules, call.incoming_rule, call.llm)
           collapsed == result.value[SetMin(matched)]
           reinforced == ReinforcedBy(existing_rules, call.incoming_rule, matched)
       IN  /\ Len(result.value) = Len(existing_rules) - Cardinality(matched) + 1
           /\ \A i \in 1..(SetMin(matched) - 1) : result.value[i] = existing_rules[i]
           /\ collapsed.rule = existing_rules[SetMax(matched)].rule
           /\ collapsed.confidence = reinforced.confidence
           /\ collapsed.derived_from = reinforced.derived_from

\* a multi-merge of two rules with three different texts, the second matched only by
\* the merged record: the collapsed record has the second one's text and is
\* reinforced twice
C35_Witness ==
    /\ IsMergeIncoming /\ call.llm = LlmNone
    /\ Len(call.existing_rules) = 2 /\ Len(result.value) = 1
    /\ SlotsLikeIncoming(call.existing_rules, call.incoming_rule, call.llm) = {1}
    /\ MatchedSlots(call.existing_rules, call.incoming_rule, call.llm) = {1, 2}
    /\ call.existing_rules[1].rule # call.existing_rules[2].rule
    /\ call.existing_rules[1].rule # call.incoming_rule.rule
    /\ call.existing_rules[2].rule # call.incoming_rule.rule
    /\ result.value[1].rule = call.existing_rules[2].rule
    /\ call.existing_rules[1].derived_from = call.incoming_rule.derived_from
    /\ call.existing_rules[2].derived_from <= call.incoming_rule.derived_from
    /\ result.value[1].derived_from = call.incoming_rule.derived_from + 2

\* ---------------------------------------------------------------------------------
\* the number of records a consolidation returns and a save leaves
\* ---------------------------------------------------------------------------------

MaxSaves == 2

\* lines of semantic.jsonl: the five rules of ConsRules, of which some are similar to
\* each other, text that is not JSON, and a rule with a blank text
SizeSemLines ==
    ConsRules
    \cup {Unparsable, Json(RuleDict(Str(<<"", "">>), Str(<<"d">>), Num(50), Num(0)))}

SizeStrategies == {_normalize_strategy(d) : d \in ValidProcInputs}

\* lines of procedural.jsonl: four strategies, of which some are similar to each other,
\* text that is not JSON, and a strategy whose steps are a string
SizeProcLines ==
    SizeStrategies
    \cup {Unparsable,
          Json(StrategyDict(Str(<<"a">>), Str(EmptyStr), Str(<<"b">>), Num(50), Num(0)))}

SizeInit ==
    /\ \/ semFile \in SeqsUpTo(SizeSemLines, MaxFileLines) /\ ProcInit
       \/ SemInit /\ procFile \in SeqsUpTo(SizeProcLines, MaxFileLines)
    /\ EpiInit /\ CallInit /\ RwInit

\* save_semantic_rule(rule_data, llm=llm) on the file as it is
SizeSaveRule ==
    /\ procFile = <<>> /\ run < MaxSaves
    /\ \E rule_data \in SemInputs, llm \in {LlmNone, LlmAlwaysSimilar} :
          \E out \in {save_semantic_rule(semFile, rule_data, llm)} :
              /\ semFile' = out.file
              /\ call' = [op |-> "save_semantic_rule", rule_data |-> rule_data, llm |-> llm]
              /\ result' = IF out.raised THEN Raised ELSE Returned(None)
    /\ prev' = semFile
    /\ run' = run + 1
    /\ UNCHANGED <<procFile, epiFile, rwVars>>

\* save_procedural_strategy(strategy) on the file as it is
SizeSaveStrategy ==
    /\ semFile = <<>> /\ run < MaxSaves
    /\ \E strategy \in ProcInputs :
          /\ procFile' = save_procedural_strategy(procFile, strategy)
          /\ call' = [op |-> "save_procedural_strategy", strategy |-> strategy]
    /\ result' = Returned(None)
    /\ prev' = procFile
    /\ run' = run + 1
    /\ UNCHANGED <<semFile, epiFile, rwVars>>

\* _consolidate_with_llm on the rules load_semantic_rules returns for the file
SizeConsolidateRules ==
    /\ procFile = <<>> /\ semFile # <<>>
    /\ \E llm \in {LlmNone, LlmAlwaysSimilar} :
          \E out \in {_consolidate_with_llm(load_semantic_rules(semFile), llm)} :
              /\ call' = [op |-> "_consolidate_with_llm",
                          rules |-> load_semantic_rules(semFile), llm |-> llm]
              /\ result' = IF out.raised THEN Raised ELSE Returned(out.value)
    /\ prev' = semFile
    /\ UNCHANGED <<semFile, procFile, epiFile, run, rwVars>>

\* _consolidate_strategies on the valid lines of the file
SizeConsolidateStrategies ==
    /\ semFile = <<>> /\ procFile # <<>>
    /\ call' = [op |-> "_consolidate_strategies", strategies |-> LoadedStrategies(procFile)]
    /\ result' = Returned(_consolidate_strategies(LoadedStrategies(procFile)))
    /\ prev' = procFile
    /\ UNCHANGED <<semFile, procFile, epiFile, run, rwVars>>

SizeNext ==
    \/ SizeSaveRule
    \/ SizeSaveStrategy
    \/ SizeConsolidateRules
    \/ SizeConsolidateStrategies

SizeSpec == SizeInit /\ [][SizeNext]_vars

\* the two rules are judged equivalent under the oracle of the call, in either order
JudgedSimilar(left, right) ==
    \/ _llm_similarity_decision(left, right, call.llm).similar
    \/ _llm_similarity_decision(right, left, call.llm).similar

SimilarStrategies(left, right) ==
    _is_similar_strategy(left, right) \/ _is_similar_strategy(right, left)

\* the change a save of `incoming` made to the valid records `before` of the file
GrewByAtMostOne(before, after, incoming, similarToOne, similarPair) ==
    /\ Len(after) <= Len(before) + 1
    /\ incoming = None => after = before
    /\ (incoming # None /\ ~similarToOne /\ ~similarPair) => after = Append(before, incoming)
    /\ (incoming # None /\ similarToOne) => Len(after) <= Len(before)

\* C36: a consolidation returns at most as many records as it was given; a save leaves
\* at most one valid record more than the file had; it leaves exactly the records of
\* the file followed by the incoming record when that record is similar to none of them
\* and no two of them are similar; and it leaves no more records than the file had when
\* the incoming record is similar to one of them.
C36_SizeControlledByMerging ==
    /\ (call.op = "_consolidate_with_llm" /\ result.done /\ ~result.raised)
          => Len(result.value) <= Len(call.rules)
    /\ (call.op = "_consolidate_strategies" /\ result.done)
          => Len(result.value) <= Len(call.strategies)
    /\ (call.op = "save_semantic_rule" /\ result.done /\ ~result.raised)
          => LET before == RulesOfValidLines(prev)
                 incoming == _normalize_rule(call.rule_data)
             IN  /\ OnlyRules(semFile) \/ semFile = prev
                 /\ GrewByAtMostOne(before, RulesOfValidLines(semFile), incoming,
                        \E i \in 1..Len(before) : JudgedSimilar(before[i], incoming),
                        \E i \in 1..Len(before) : \E j \in 1..Len(before) :
                            i # j /\ JudgedSimilar(before[i], before[j]))
    /\ (call.op = "save_procedural_strategy" /\ result.done)
          => LET before == StrategiesOfValidLines(prev)
                 incoming == _normalize_strategy(call.strategy)
             IN  /\ OnlyStrategies(procFile) \/ procFile = prev
                 /\ GrewByAtMostOne(before, StrategiesOfValidLines(procFile), incoming,
                        \E i \in 1..Len(before) : SimilarStrategies(before[i], incoming),
                        \E i \in 1..Len(before) : \E j \in 1..Len(before) :
                            i # j /\ SimilarStrategies(before[i], before[j]))

\* the second of two saves found two valid records, dissimilar to each other, and was
\* given a rule similar to one of them: the file has two records afterwards
C36_Witness ==
    /\ call.op = "save_semantic_rule" /\ result.done /\ call.llm = LlmNone
    /\ run = MaxSaves
    /\ _normalize_rule(call.rule_data) # None
    /\ Len(RulesOfValidLines(prev)) = 2
    /\ ~JudgedSimilar(RulesOfValidLines(prev)[1], RulesOfValidLines(prev)[2])
    /\ \E i \in 1..2 :
          JudgedSimilar(RulesOfValidLines(prev)[i], _normalize_rule(call.rule_data))
    /\ Len(RulesOfValidLines(semFile)) = 2

====
